---- MODULE Spec2Model ----
(***************************************************************************)
(* mediapod: the asset lifecycle kept by the media-api upload handlers     *)
(* (InitUpload, CompleteUpload, DeleteAsset), the Redis job queue, the     *)
(* media-worker pool and the Processor's video transcode pipeline.         *)
(*                                                                         *)
(* The database, the object store, Redis and the external commands         *)
(* (ffprobe, ffmpeg) are collaborators: every call the code checks an      *)
(* error of may fail, and a call made with a cancelled context fails.      *)
(* Each database statement, queue command, object-store call and           *)
(* file-system call is one atomic step, so handlers and jobs interleave.   *)
(***************************************************************************)
EXTENDS Naturals, Integers, Sequences, FiniteSets, TLC

\* ------------------------------------------------------------------ bounds
\* uuid.New() values handed out to assets: asset ids are 1..MaxAssets
MaxAssets == 2
\* HTTP requests the API serves at the same time
NumReqs == 2
\* assets uploaded while requests run concurrently or the worker pool runs
LiveAssets == 1
\* files ffmpeg leaves in the HLS output directory (master.m3u8, playlists, segments)
NumHLSFiles == 2

\* jobs pushed onto the queue through EnqueueJob
MaxJobs == 3
\* _uuid.v4() values handed out to upload tasks: task ids are 1..MaxTasks
MaxTasks == 2
\* UploadController.maxConcurrentUploads, a constructor argument
maxConcurrentUploads == 1
\* asset ids the gallery shows: 1..MaxSel
MaxSel == 3
\* SelectionState.maxCount is 0..MaxLimit
MaxLimit == 2
\* assets in a list given to selectAll
MaxList == 3

\* -------------------------------------------------------- program constants
\* loadConfig: concurrency := 2
Concurrency == 2

AssetIds == 1..MaxAssets
Reqs == 1..NumReqs
Workers == 1..Concurrency
HLSFiles == 1..NumHLSFiles
TaskIds == 1..MaxTasks
SelIds == 1..MaxSel
\* enum SelectionMode
SelectionModes == {"none", "single", "multiple"}
\* the lists of assets selectAll may be given, by id
AssetLists == UNION {[1..n -> SelIds] : n \in 0..MaxList}
\* calendar days of time.Now(): a day and the next
Days == {1, 2}

\* a kind set that also admits gif
Kinds_WithGif == {"image", "video", "audio", "document", "gif"}

\* assets.kind CHECK (kind IN (...)) and the handler's validation
Kinds == {"image", "video", "audio", "document"}
\* assets.state CHECK (state IN (...))
States == {"uploading", "processing", "ready", "failed"}

\* request inputs: file names are sequences of characters
ClipName == <<"c", ".", "m">>
Filenames == {<<>>, ClipName, <<"c">>, <<".", "/", "c">>}
Mimes == {"", "video/mp4"}
KindInputs == Kinds \cup {"", "gif"}
Sizes == {0, 1048576}
\* assetId strings of a request: <<>> does not parse as a uuid, <<a>> is uuid a
IdInputs == {<<>>} \cup {<<a>> : a \in AssetIds}

VARIABLES
    assets,        \* table assets: id -> [kind, state, object_key]
    asset_meta,    \* table asset_meta: asset_id -> [width, height, codec]
    queue,         \* Redis list media:jobs:pending
    vod,           \* bucket media-vod: asset id -> files under {assetId}/hls/
    thumbs,        \* bucket media-thumbs: asset ids with {assetId}/poster.jpg
    originals,     \* bucket media-originals: object keys of the uploaded originals
    workDir,       \* worker file system: {tempDir}/{assetId} -> files in it
    nextUUID,      \* uuid.New() for assets: the next unused id
    nextJobID,     \* uuid.New() for jobs: the next unused id
    reqs,          \* API request handlers in flight
    resp,          \* the HTTP response written by the last step (NoResp: none)
    wk,            \* the pool's worker goroutines
    poolCtxDone,   \* Pool.ctx is cancelled
    stopPc,        \* Pool.Stop: not called, waiting in p.wg.Wait(), or returned
    passed,        \* history: per asset, CompleteUpload calls whose UPDATE matched a row
    pushed,        \* history: per asset, jobs CompleteUpload pushed onto the queue
    issuedKeys,    \* history: object keys returned by InitUpload
    attempts,      \* history: per job id, the times a worker handed the job to processJob
    tasks,         \* UploadController._tasks: task id -> UploadTask
    upQueue,       \* UploadController._queue: the UploadTask objects waiting
    activeUploads, \* UploadController._activeUploads
    run,           \* the _upload calls in flight: per task id, the await it is at
    nextTask,      \* _uuid.v4() for tasks: the next unused id
    ufc,           \* a MediapodClient.uploadFileComplete call: the await it is at
    selectedIds,   \* SelectionState.selectedIds
    mode,          \* SelectionState.mode
    maxCount,      \* SelectionState.maxCount
    ui             \* the widget-side operation of the last step (NoCall: none)

dbVars == <<assets, asset_meta>>
storeVars == <<vod, thumbs, originals>>
apiVars == <<nextUUID, reqs, passed, pushed, issuedKeys>>
poolVars == <<poolCtxDone, stopPc>>
workerVars == <<wk, poolVars, workDir>>
controllerVars == <<tasks, upQueue, activeUploads, run, nextTask>>
selectionVars == <<selectedIds, mode, maxCount>>
clientVars == <<controllerVars, ufc, selectionVars, ui>>
serverVars == <<assets, asset_meta, queue, vod, thumbs, originals, workDir, nextUUID, nextJobID,
                reqs, resp, wk, poolCtxDone, stopPc, passed, pushed, issuedKeys, attempts>>
vars == <<serverVars, clientVars>>

\* ----------------------------------------------------------------- helpers
\* remove key k from the function (table) f
Without(f, k) == [x \in DOMAIN f \ {k} |-> f[x]]

\* filepath.Ext: the suffix beginning at the final dot of the last path element
RECURSIVE ExtFrom(_, _)
ExtFrom(path, i) ==
    IF i = 0 THEN <<>>
    ELSE IF path[i] = "/" THEN <<>>
    ELSE IF path[i] = "." THEN SubSeq(path, i, Len(path))
    ELSE ExtFrom(path, i - 1)

Ext(path) == ExtFrom(path, Len(path))

\* a mutant of ObjectKey: the key leaves the asset id out
ObjectKey_NoId(now, assetID, filename) == <<now, 0, Ext(filename)>>

\* fmt.Sprintf("%s/%s%s", time.Now().Format("2006/01/02"), assetID, ext)
ObjectKey(now, assetID, filename) == <<now, assetID, Ext(filename)>>

\* a mutant of InitialState
InitialState_Processing == "processing"

\* the state InitUpload inserts
InitialState == "uploading"

\* a mutant of CompleteGuard: WHERE id = $1 alone
CompleteGuard_IdOnly(a) == a \in DOMAIN assets

\* UPDATE assets SET state = 'processing' WHERE id = $1 AND state = 'uploading'
CompleteGuard(a) == a \in DOMAIN assets /\ assets[a].state = "uploading"

\* a mutant of TranscodeJob: the wrong job type
TranscodeJob_Thumbnail(id, a) == [id |-> id, assetId |-> a, type |-> "thumbnail"]

\* Job{ID: uuid.New(), AssetID: assetID, Type: "transcode"}
TranscodeJob(id, a) == [id |-> id, assetId |-> a, type |-> "transcode"]

\* UPDATE assets SET state = $1 WHERE id = $2: no row, no change
SetState(tbl, a, s) ==
    IF a \in DOMAIN tbl THEN [tbl EXCEPT ![a].state = s] ELSE tbl

\* the outcomes of a call that takes a context: it fails once the context is done
CtxCall(ctxDone) == IF ctxDone THEN {FALSE} ELSE BOOLEAN

NoResp == [op |-> "none", status |-> 0, state |-> "", id |-> 0, key |-> <<>>]
Response(op, status, state, id, key) ==
    [op |-> op, status |-> status, state |-> state, id |-> id, key |-> key]

\* respondError: the status and {"error": message}
respondError(op, status, message) ==
    [op |-> op, status |-> status, state |-> "", id |-> 0, key |-> <<>>, error |-> message]

IdleReq == [pc |-> "idle", op |-> "none", id |-> 0, kind |-> ""]
NoJob == [id |-> 0, assetId |-> 0, type |-> ""]
NewWorker == [pc |-> "new", job |-> NoJob, timedOut |-> FALSE, err |-> "none",
              deferred |-> FALSE, n |-> 0, kind |-> ""]

\* an UploadTask as enqueue constructs it; null is 0 for assetId, "null" for
\* error, FALSE for completedAt
NewTask(id) ==
    [id |-> id, status |-> "queued", progress |-> 0, assetId |-> 0,
     error |-> "null", completedAt |-> FALSE]
\* no _upload call in flight; in one, trace is the client calls made and their results so far
NoRun == [pc |-> "none", task |-> NewTask(0), assetId |-> 0, trace |-> <<>>]
\* no uploadFileComplete call in flight; in one, trace is the client calls made
\* and their results so far
IdleCall == [pc |-> "idle", trace |-> <<>>]
NoCall == [op |-> "none", id |-> 0, list |-> <<>>]
Call(op, id) == [op |-> op, id |-> id, list |-> <<>>]

\* -------------------------------------------------------------------- Init
InitRest ==
    /\ assets = <<>>
    /\ asset_meta = <<>>
    /\ queue = <<>>
    /\ vod = [a \in AssetIds |-> {}]
    /\ thumbs = {}
    /\ originals = {}
    /\ workDir = <<>>
    /\ nextUUID = 1
    /\ nextJobID = 1
    /\ reqs = [r \in Reqs |-> IdleReq]
    /\ resp = NoResp
    /\ wk = [w \in Workers |-> NewWorker]
    /\ poolCtxDone = FALSE
    /\ stopPc = "idle"
    /\ passed = [a \in AssetIds |-> 0]
    /\ pushed = [a \in AssetIds |-> 0]
    /\ issuedKeys = {}
    /\ attempts = <<>>
    /\ tasks = <<>>
    /\ upQueue = <<>>
    /\ activeUploads = {}
    /\ run = [t \in TaskIds |-> NoRun]
    /\ nextTask = 1
    /\ ufc = IdleCall
    /\ ui = NoCall

\* const SelectionState(): no selection, multiple mode, no limit
Init ==
    /\ InitRest
    /\ selectedIds = {}
    /\ mode = "multiple"
    /\ maxCount = 0

\* ------------------------------------------------------- Handler.InitUpload
\* a mutant of InitUpload: the row is removed again when presigning fails
InitUpload_Rollback(mime, kind, filename, size, now) ==
    /\ UNCHANGED <<clientVars, attempts>>
    /\ UNCHANGED <<asset_meta, queue, storeVars, workerVars, nextJobID, reqs, passed, pushed>>
    /\ IF mime = "" \/ kind = "" \/ filename = <<>> \/ kind \notin Kinds
       THEN /\ resp' = Response("init", 400, "", 0, <<>>)
            /\ UNCHANGED <<assets, nextUUID, issuedKeys>>
       ELSE /\ nextUUID <= MaxAssets
            /\ nextUUID' = nextUUID + 1
            /\ LET assetID == nextUUID
                   objectKey == ObjectKey(now, assetID, filename)
                   unique == \A a \in DOMAIN assets : assets[a].object_key # objectKey
               IN \E dbOk \in BOOLEAN, presignOk \in BOOLEAN :
                    IF ~dbOk \/ ~unique
                    THEN /\ resp' = respondError("init", 500, "Failed to create asset")
                         /\ UNCHANGED <<assets, issuedKeys>>
                    ELSE /\ assets' = IF presignOk
                                       THEN assets @@ (assetID :>
                                              [kind |-> kind, state |-> InitialState,
                                               object_key |-> objectKey])
                                       ELSE assets
                         /\ IF presignOk
                            THEN /\ resp' = Response("init", 200, "", assetID, objectKey)
                                 /\ issuedKeys' = issuedKeys \cup {objectKey}
                            ELSE /\ resp' = respondError("init", 500, "Failed to generate upload URL")
                                 /\ UNCHANGED issuedKeys

\* POST /v1/media/init-upload: validation, INSERT, presigned PUT URL
InitUpload(mime, kind, filename, size, now) ==
    /\ UNCHANGED <<clientVars, attempts>>
    /\ UNCHANGED <<asset_meta, queue, storeVars, workerVars, nextJobID, reqs, passed, pushed>>
    /\ IF mime = "" \/ kind = "" \/ filename = <<>> \/ kind \notin Kinds
       THEN /\ resp' = Response("init", 400, "", 0, <<>>)
            /\ UNCHANGED <<assets, nextUUID, issuedKeys>>
       ELSE /\ nextUUID <= MaxAssets
            /\ nextUUID' = nextUUID + 1
            /\ LET assetID == nextUUID
                   objectKey == ObjectKey(now, assetID, filename)
                   unique == \A a \in DOMAIN assets : assets[a].object_key # objectKey
               IN \E dbOk \in BOOLEAN, presignOk \in BOOLEAN :
                    IF ~dbOk \/ ~unique
                    THEN /\ resp' = respondError("init", 500, "Failed to create asset")
                         /\ UNCHANGED <<assets, issuedKeys>>
                    ELSE /\ assets' = assets @@ (assetID :>
                                [kind |-> kind, state |-> InitialState, object_key |-> objectKey])
                         /\ IF presignOk
                            THEN /\ resp' = Response("init", 200, "", assetID, objectKey)
                                 /\ issuedKeys' = issuedKeys \cup {objectKey}
                            ELSE /\ resp' = respondError("init", 500, "Failed to generate upload URL")
                                 /\ UNCHANGED issuedKeys

\* --------------------------------------------------- Handler.CompleteUpload
\* decode, uuid.Parse, and the guarded UPDATE to 'processing'
CompleteUpload_Update(r, idStr) ==
    /\ UNCHANGED <<clientVars, attempts>>
    /\ reqs[r].pc = "idle"
    /\ UNCHANGED <<asset_meta, queue, storeVars, workerVars, nextUUID, nextJobID, pushed, issuedKeys>>
    /\ IF Len(idStr) = 0
       THEN /\ resp' = Response("complete", 400, "", 0, <<>>)
            /\ UNCHANGED <<assets, reqs, passed>>
       ELSE LET assetID == idStr[1] IN
            \E dbOk \in BOOLEAN :
              IF ~dbOk
              THEN /\ resp' = Response("complete", 500, "", assetID, <<>>)
                   /\ UNCHANGED <<assets, reqs, passed>>
              ELSE IF ~CompleteGuard(assetID)
              THEN /\ resp' = Response("complete", 404, "", assetID, <<>>)
                   /\ UNCHANGED <<assets, reqs, passed>>
              ELSE /\ assets' = SetState(assets, assetID, "processing")
                   /\ passed' = [passed EXCEPT ![assetID] = @ + 1]
                   /\ reqs' = [reqs EXCEPT ![r] =
                                 [pc |-> "kind", op |-> "complete", id |-> assetID, kind |-> ""]]
                   /\ resp' = NoResp

\* SELECT kind FROM assets WHERE id = $1
CompleteUpload_Kind(r) ==
    /\ UNCHANGED <<clientVars, attempts>>
    /\ reqs[r].pc = "kind"
    /\ UNCHANGED <<dbVars, queue, storeVars, workerVars, nextUUID, nextJobID, passed, pushed, issuedKeys>>
    /\ \E dbOk \in BOOLEAN :
         IF ~dbOk \/ reqs[r].id \notin DOMAIN assets
         THEN /\ resp' = Response("complete", 500, "", reqs[r].id, <<>>)
              /\ reqs' = [reqs EXCEPT ![r] = IdleReq]
         ELSE /\ reqs' = [reqs EXCEPT ![r].pc = "branch", ![r].kind = assets[reqs[r].id].kind]
              /\ resp' = NoResp

\* a mutant of CompleteUpload_Branch: a failed push rolls the asset back to uploading
CompleteUpload_Branch_Rollback(r) ==
    /\ UNCHANGED <<clientVars, attempts>>
    /\ reqs[r].pc = "branch"
    /\ reqs' = [reqs EXCEPT ![r] = IdleReq]
    /\ UNCHANGED <<asset_meta, storeVars, workerVars, nextUUID, passed, issuedKeys>>
    /\ LET assetID == reqs[r].id IN
       IF reqs[r].kind = "video"
       THEN /\ nextJobID' = nextJobID + 1
            /\ \E pushOk \in BOOLEAN :
                 IF pushOk
                 THEN /\ queue' = Append(queue, TranscodeJob(nextJobID, assetID))
                      /\ pushed' = [pushed EXCEPT ![assetID] = @ + 1]
                      /\ resp' = Response("complete", 200, "processing", assetID, <<>>)
                      /\ UNCHANGED assets
                 ELSE /\ UNCHANGED <<queue, pushed>>
                      /\ assets' = SetState(assets, assetID, "uploading")
                      /\ resp' = Response("complete", 500, "", assetID, <<>>)
       ELSE /\ \E dbOk \in BOOLEAN :
                 assets' = IF dbOk THEN SetState(assets, assetID, "ready") ELSE assets
            /\ resp' = Response("complete", 200, "ready", assetID, <<>>)
            /\ UNCHANGED <<queue, nextJobID, pushed>>

\* the branch on kind, and the response
CompleteUpload_Branch(r) ==
    /\ UNCHANGED <<clientVars, attempts>>
    /\ reqs[r].pc = "branch"
    /\ reqs' = [reqs EXCEPT ![r] = IdleReq]
    /\ UNCHANGED <<asset_meta, storeVars, workerVars, nextUUID, passed, issuedKeys>>
    /\ LET assetID == reqs[r].id IN
       IF reqs[r].kind = "video"
       THEN /\ nextJobID' = nextJobID + 1
            /\ \E pushOk \in BOOLEAN :
                 IF pushOk
                 THEN /\ queue' = Append(queue, TranscodeJob(nextJobID, assetID))
                      /\ pushed' = [pushed EXCEPT ![assetID] = @ + 1]
                 ELSE UNCHANGED <<queue, pushed>>
            /\ resp' = Response("complete", 200, "processing", assetID, <<>>)
            /\ UNCHANGED assets
       ELSE /\ \E dbOk \in BOOLEAN :
                 assets' = IF dbOk THEN SetState(assets, assetID, "ready") ELSE assets
            /\ resp' = Response("complete", 200, "ready", assetID, <<>>)
            /\ UNCHANGED <<queue, nextJobID, pushed>>

\* ------------------------------------------------------ Handler.DeleteAsset
\* uuid.Parse and SELECT bucket, object_key
DeleteAsset_Select(r, idStr) ==
    /\ UNCHANGED <<clientVars, attempts>>
    /\ reqs[r].pc = "idle"
    /\ UNCHANGED <<dbVars, queue, storeVars, workerVars, nextUUID, nextJobID, passed, pushed, issuedKeys>>
    /\ IF Len(idStr) = 0
       THEN /\ resp' = Response("delete", 400, "", 0, <<>>)
            /\ UNCHANGED reqs
       ELSE LET assetID == idStr[1] IN
            \E dbOk \in BOOLEAN :
              IF ~dbOk \/ assetID \notin DOMAIN assets
              THEN /\ resp' = Response("delete", 404, "", assetID, <<>>)
                   /\ UNCHANGED reqs
              ELSE /\ reqs' = [reqs EXCEPT ![r] =
                                 [pc |-> "delete", op |-> "delete", id |-> assetID, kind |-> ""]]
                   /\ resp' = NoResp

\* a mutant of DeleteAsset_Delete: the DELETE does not cascade to asset_meta
DeleteAsset_Delete_NoCascade(r) ==
    /\ UNCHANGED <<clientVars, attempts>>
    /\ reqs[r].pc = "delete"
    /\ reqs' = [reqs EXCEPT ![r] = IdleReq]
    /\ UNCHANGED <<queue, vod, thumbs, workerVars, nextUUID, nextJobID, passed, pushed, issuedKeys>>
    /\ LET assetID == reqs[r].id IN
       \E storageOk \in BOOLEAN, dbOk \in BOOLEAN :
         /\ originals' = IF storageOk THEN {k \in originals : k[2] # assetID} ELSE originals
         /\ IF ~dbOk
            THEN /\ resp' = Response("delete", 500, "", assetID, <<>>)
                 /\ UNCHANGED dbVars
            ELSE /\ assets' = Without(assets, assetID)
                 /\ UNCHANGED asset_meta
                 /\ resp' = Response("delete", 204, "", assetID, <<>>)

\* storage.DeleteObject of the original, whose key names the asset (its error
\* is logged), then DELETE FROM assets, which cascades to asset_meta
DeleteAsset_Delete(r) ==
    /\ UNCHANGED <<clientVars, attempts>>
    /\ reqs[r].pc = "delete"
    /\ reqs' = [reqs EXCEPT ![r] = IdleReq]
    /\ UNCHANGED <<queue, vod, thumbs, workerVars, nextUUID, nextJobID, passed, pushed, issuedKeys>>
    /\ LET assetID == reqs[r].id IN
       \E storageOk \in BOOLEAN, dbOk \in BOOLEAN :
         /\ originals' = IF storageOk THEN {k \in originals : k[2] # assetID} ELSE originals
         /\ IF ~dbOk
            THEN /\ resp' = Response("delete", 500, "", assetID, <<>>)
                 /\ UNCHANGED dbVars
            ELSE /\ assets' = Without(assets, assetID)
                 /\ asset_meta' = Without(asset_meta, assetID)
                 /\ resp' = Response("delete", 204, "", assetID, <<>>)

\* ------------------------------------------------------- the client's PUT
\* uploadFile: the client PUTs the bytes to the presigned URL InitUpload returned
PutObject(key) ==
    /\ UNCHANGED <<clientVars, attempts>>
    /\ key \in issuedKeys
    /\ key \notin originals
    /\ originals' = originals \cup {key}
    /\ UNCHANGED <<dbVars, queue, vod, thumbs, workerVars, apiVars, nextJobID>>
    /\ resp' = NoResp

\* the original of asset a is in the originals bucket
HasOriginal(a) == \E k \in originals : k[2] = a

\* -------------------------------------------- Handler.GetAsset / ListAssets
\* a mutant of buildAssetURLs: the HLS URL names index.m3u8
buildAssetURLs_WrongManifest(assetID, kind, state) ==
    IF state # "ready" THEN {}
    ELSE CASE kind = "image" ->
                {<<"original", <<"PUBLIC_IMGPROXY_URL/v1/media", assetID, "original">>>>,
                 <<"thumbnail", <<"PUBLIC_IMGPROXY_URL", assetID, "rs:fit:400:400/q:80/f:webp">>>>,
                 <<"signedImage", <<"", 0, "Call /v1/image endpoint with operations">>>>}
           [] kind = "video" ->
                {<<"hls", <<"PUBLIC_VOD_URL", assetID, "hls/index.m3u8">>>>,
                 <<"poster", <<"PUBLIC_THUMBS_URL", assetID, "poster.jpg">>>>}
           [] OTHER -> {}

\* a mutant of buildAssetURLs: the state is not looked at
buildAssetURLs_AnyState(assetID, kind, state) ==
    CASE kind = "image" ->
           {<<"original", <<"PUBLIC_IMGPROXY_URL/v1/media", assetID, "original">>>>,
            <<"thumbnail", <<"PUBLIC_IMGPROXY_URL", assetID, "rs:fit:400:400/q:80/f:webp">>>>,
            <<"signedImage", <<"", 0, "Call /v1/image endpoint with operations">>>>}
      [] kind = "video" ->
           {<<"hls", <<"PUBLIC_VOD_URL", assetID, "hls/master.m3u8">>>>,
            <<"poster", <<"PUBLIC_THUMBS_URL", assetID, "poster.jpg">>>>}
      [] OTHER -> {}

\* buildAssetURLs: the URL map as a set of <<name, <<base, assetID, path>>>>
\* entries; empty unless the state is ready
buildAssetURLs(assetID, kind, state) ==
    IF state # "ready" THEN {}
    ELSE CASE kind = "image" ->
                {<<"original", <<"PUBLIC_IMGPROXY_URL/v1/media", assetID, "original">>>>,
                 <<"thumbnail", <<"PUBLIC_IMGPROXY_URL", assetID, "rs:fit:400:400/q:80/f:webp">>>>,
                 <<"signedImage", <<"", 0, "Call /v1/image endpoint with operations">>>>}
           [] kind = "video" ->
                {<<"hls", <<"PUBLIC_VOD_URL", assetID, "hls/master.m3u8">>>>,
                 <<"poster", <<"PUBLIC_THUMBS_URL", assetID, "poster.jpg">>>>}
           [] OTHER -> {}

\* the AssetResponse of a row
AssetResponse(a) ==
    [id |-> a, kind |-> assets[a].kind, state |-> assets[a].state,
     urls |-> buildAssetURLs(a, assets[a].kind, assets[a].state)]

\* GET /v1/media/{assetId}: uuid.Parse, one SELECT, the URL map
GetAsset(idStr) ==
    /\ UNCHANGED <<clientVars, attempts>>
    /\ UNCHANGED <<dbVars, queue, storeVars, workerVars, apiVars, nextJobID>>
    /\ IF Len(idStr) = 0
       THEN resp' = Response("get", 400, "", 0, <<>>)
       ELSE LET assetID == idStr[1] IN
            \E dbOk \in BOOLEAN :
              IF ~dbOk \/ assetID \notin DOMAIN assets
              THEN resp' = Response("get", 404, "", assetID, <<>>)
              ELSE resp' = [op |-> "get", status |-> 200, state |-> assets[assetID].state,
                            id |-> assetID, key |-> assets[assetID].object_key,
                            asset |-> AssetResponse(assetID)]

\* GET /v1/media: one SELECT (LIMIT 50), a row whose Scan fails is skipped
ListAssets ==
    /\ UNCHANGED <<clientVars, attempts>>
    /\ UNCHANGED <<dbVars, queue, storeVars, workerVars, apiVars, nextJobID>>
    /\ \E dbOk \in BOOLEAN :
         IF ~dbOk
         THEN resp' = Response("list", 500, "", 0, <<>>)
         ELSE \E scanned \in SUBSET DOMAIN assets :
                resp' = [op |-> "list", status |-> 200, state |-> "", id |-> 0, key |-> <<>>,
                         assets |-> {AssetResponse(a) : a \in scanned}]

\* ------------------------------------------------------------ worker.Pool
\* the job context: context.WithTimeout(p.ctx, JobTimeout)
JobCtxDone(w) == poolCtxDone \/ wk[w].timedOut

JobPcs == {"lookup", "fetch", "savemeta", "transcode", "markfailed",
           "poster", "uploadhls", "finalize", "return",
           "extract", "xfetch", "xmeta"}

\* Pool.Start: one goroutine per unit of concurrency
Start ==
    /\ UNCHANGED <<clientVars, attempts>>
    /\ \A w \in Workers : wk[w].pc = "new"
    /\ wk' = [w \in Workers |-> [wk[w] EXCEPT !.pc = "select"]]
    /\ UNCHANGED <<dbVars, queue, storeVars, apiVars, nextJobID, poolVars, workDir>>
    /\ resp' = NoResp

\* Pool.Stop: p.cancel(), and the call goes on to p.wg.Wait()
Stop ==
    /\ UNCHANGED <<clientVars, attempts>>
    /\ \A w \in Workers : wk[w].pc # "new"
    /\ stopPc = "idle"
    /\ poolCtxDone' = TRUE
    /\ stopPc' = "waiting"
    /\ UNCHANGED <<dbVars, queue, storeVars, apiVars, nextJobID, wk, workDir>>
    /\ resp' = NoResp

\* Pool.Stop: p.wg.Wait() returns once every worker has run its deferred p.wg.Done()
Stop_Wait ==
    /\ UNCHANGED <<clientVars, attempts>>
    /\ stopPc = "waiting"
    /\ \A w \in Workers : wk[w].pc = "stopped"
    /\ stopPc' = "returned"
    /\ UNCHANGED <<dbVars, queue, storeVars, apiVars, nextJobID, wk, poolCtxDone, workDir>>
    /\ resp' = NoResp

\* a mutant of worker_Select: the loop does not look at p.ctx
worker_Select_NoCancelCheck(w) ==
    /\ UNCHANGED <<clientVars, attempts>>
    /\ wk[w].pc = "select"
    /\ wk' = [wk EXCEPT ![w].pc = "blpop"]
    /\ UNCHANGED <<dbVars, queue, storeVars, apiVars, nextJobID, poolVars, workDir>>
    /\ resp' = NoResp

\* Pool.worker, top of the loop: select on p.ctx.Done() with a default
worker_Select(w) ==
    /\ UNCHANGED <<clientVars, attempts>>
    /\ wk[w].pc = "select"
    /\ wk' = [wk EXCEPT ![w].pc = IF poolCtxDone THEN "stopped" ELSE "blpop"]
    /\ UNCHANGED <<dbVars, queue, storeVars, apiVars, nextJobID, poolVars, workDir>>
    /\ resp' = NoResp

\* a mutant of Dispatch: a job of an unknown type is run as a transcode job
Dispatch_DefaultTranscode(type) ==
    CASE type = "transcode" -> "lookup"
      [] type = "thumbnail" -> "return"
      [] type = "extract_meta" -> "extract"
      [] OTHER -> "lookup"

\* processJob's switch on job.Type: where the job starts
Dispatch(type) ==
    CASE type = "transcode" -> "lookup"
      [] type = "thumbnail" -> "return"
      [] type = "extract_meta" -> "extract"
      [] OTHER -> "return"

\* a payload on the list is the JSON of a Job when it has the Job's fields;
\* json.Unmarshal fails on anything else
Unmarshals(data) == DOMAIN data = {"id", "assetId", "type"}

\* uuid.Parse(job.AssetID); 0 stands for a string that is not a uuid
uuidParses(assetId) == assetId # 0

\* processJob: where the job starts, and the error of a job that does not start
processJob(job) ==
    IF ~uuidParses(job.assetId) THEN [pc |-> "return", err |-> "parse"]
    ELSE [pc |-> Dispatch(job.type), err |-> "none"]

\* the count of id in the history hist, raised by one
Counted(hist, id) ==
    [j \in DOMAIN hist \cup {id} |-> IF j \in DOMAIN hist
                                      THEN (IF j = id THEN hist[j] + 1 ELSE hist[j])
                                      ELSE 1]

\* worker w has received the payload data: a payload that does not parse is
\* logged and the loop continues; a job is handed to processJob
Received(w, data) ==
    IF ~Unmarshals(data)
    THEN /\ wk' = [wk EXCEPT ![w].pc = "select"]
         /\ UNCHANGED attempts
    ELSE /\ wk' = [wk EXCEPT ![w] = [pc |-> processJob(data).pc, job |-> data,
                                     timedOut |-> FALSE, err |-> processJob(data).err,
                                     deferred |-> FALSE, n |-> 0, kind |-> ""]]
         /\ attempts' = Counted(attempts, data.id)

\* a mutant of worker_BLPop: the job is read from the head of the list and left there
worker_BLPop_Peek(w) ==
    /\ UNCHANGED clientVars
    /\ wk[w].pc = "blpop"
    /\ UNCHANGED <<dbVars, storeVars, apiVars, nextJobID, poolVars, workDir, queue>>
    /\ resp' = NoResp
    /\ \E outcome \in (IF queue # <<>> THEN {"job"} ELSE {"nil"})
                        \cup (IF poolCtxDone THEN {"canceled"} ELSE {}) :
         IF outcome = "job"
         THEN Received(w, Head(queue))
         ELSE /\ wk' = [wk EXCEPT ![w].pc = IF outcome = "canceled" THEN "stopped" ELSE "select"]
              /\ UNCHANGED attempts

\* a mutant of worker_BLPop: a payload that does not parse is put back at the
\* tail of the list
worker_BLPop_RequeueMalformed(w) ==
    /\ UNCHANGED clientVars
    /\ wk[w].pc = "blpop"
    /\ UNCHANGED <<dbVars, storeVars, apiVars, nextJobID, poolVars, workDir>>
    /\ resp' = NoResp
    /\ \E outcome \in (IF queue # <<>> THEN {"job"} ELSE {"nil"})
                        \cup (IF poolCtxDone THEN {"canceled"} ELSE {}) :
         IF outcome = "job"
         THEN /\ queue' = IF Unmarshals(Head(queue)) THEN Tail(queue)
                          ELSE Append(Tail(queue), Head(queue))
              /\ Received(w, Head(queue))
         ELSE /\ wk' = [wk EXCEPT ![w].pc = IF outcome = "canceled" THEN "stopped" ELSE "select"]
              /\ UNCHANGED <<queue, attempts>>

\* BLPop with a 5 second timeout: a payload from the head of the list, or
\* nothing (redis.Nil), or context.Canceled; then json.Unmarshal and processJob
worker_BLPop(w) ==
    /\ UNCHANGED clientVars
    /\ wk[w].pc = "blpop"
    /\ UNCHANGED <<dbVars, storeVars, apiVars, nextJobID, poolVars, workDir>>
    /\ resp' = NoResp
    /\ \E outcome \in (IF queue # <<>> THEN {"job"} ELSE {"nil"})
                        \cup (IF poolCtxDone THEN {"canceled"} ELSE {}) :
         IF outcome = "job"
         THEN /\ queue' = Tail(queue)
              /\ Received(w, Head(queue))
         ELSE /\ wk' = [wk EXCEPT ![w].pc = IF outcome = "canceled" THEN "stopped" ELSE "select"]
              /\ UNCHANGED <<queue, attempts>>

\* a mutant of worker_PopError: the worker returns on any pop error
worker_PopError_Exit(w) ==
    /\ UNCHANGED <<clientVars, attempts>>
    /\ wk[w].pc = "blpop"
    /\ wk' = [wk EXCEPT ![w].pc = "stopped"]
    /\ UNCHANGED <<dbVars, queue, storeVars, apiVars, nextJobID, poolVars, workDir>>
    /\ resp' = NoResp

\* BLPop fails with an error that is neither redis.Nil nor context.Canceled:
\* the worker logs it and sleeps 5 seconds
worker_PopError(w) ==
    /\ UNCHANGED <<clientVars, attempts>>
    /\ wk[w].pc = "blpop"
    /\ wk' = [wk EXCEPT ![w].pc = "sleep"]
    /\ UNCHANGED <<dbVars, queue, storeVars, apiVars, nextJobID, poolVars, workDir>>
    /\ resp' = NoResp

\* time.Sleep(5 * time.Second) returns and the loop continues
worker_Sleep(w) ==
    /\ UNCHANGED <<clientVars, attempts>>
    /\ wk[w].pc = "sleep"
    /\ wk' = [wk EXCEPT ![w].pc = "select"]
    /\ UNCHANGED <<dbVars, queue, storeVars, apiVars, nextJobID, poolVars, workDir>>
    /\ resp' = NoResp

\* the JobTimeout timer of the job's context fires
JobTimeout(w) ==
    /\ UNCHANGED <<clientVars, attempts>>
    /\ wk[w].pc \in JobPcs
    /\ ~wk[w].timedOut
    /\ wk' = [wk EXCEPT ![w].timedOut = TRUE]
    /\ UNCHANGED <<dbVars, queue, storeVars, apiVars, nextJobID, poolVars, workDir>>
    /\ resp' = NoResp

\* ------------------------------------------------ Processor.TranscodeVideo
\* a step of worker w's job that leaves everything but wk and the named variables alone
JobFrame == UNCHANGED <<queue, apiVars, nextJobID, poolVars, clientVars, attempts>> /\ resp' = NoResp

\* a mutant of TranscodeVideo_Lookup: a failed lookup marks the asset failed
TranscodeVideo_Lookup_MarksFailed(w) ==
    /\ wk[w].pc = "lookup"
    /\ JobFrame
    /\ UNCHANGED <<asset_meta, storeVars, workDir>>
    /\ \E dbOk \in CtxCall(JobCtxDone(w)) :
         IF dbOk /\ wk[w].job.assetId \in DOMAIN assets
         THEN /\ wk' = [wk EXCEPT ![w].pc = "fetch"]
              /\ UNCHANGED assets
         ELSE /\ wk' = [wk EXCEPT ![w].pc = "return", ![w].err = "lookup"]
              /\ assets' = SetState(assets, wk[w].job.assetId, "failed")

\* SELECT bucket, object_key, filename FROM assets WHERE id = $1
TranscodeVideo_Lookup(w) ==
    /\ wk[w].pc = "lookup"
    /\ JobFrame
    /\ UNCHANGED <<dbVars, storeVars, workDir>>
    /\ \E dbOk \in CtxCall(JobCtxDone(w)) :
         wk' = IF dbOk /\ wk[w].job.assetId \in DOMAIN assets
               THEN [wk EXCEPT ![w].pc = "fetch"]
               ELSE [wk EXCEPT ![w].pc = "return", ![w].err = "lookup"]

\* the files of a work directory: input{ext}, poster.jpg, hls/...
InputFile == <<"input", 0>>
PosterFile == <<"poster.jpg", 0>>
HLSNames == {<<"hls", f>> : f \in HLSFiles}

\* files written into the work directory of asset a (created when it is gone)
WriteFiles(dirs, a, files) ==
    IF a \in DOMAIN dirs THEN [dirs EXCEPT ![a] = @ \cup files] ELSE dirs @@ (a :> files)

HasFile(a, f) == a \in DOMAIN workDir /\ f \in workDir[a]

\* os.MkdirAll(workDir) with defer os.RemoveAll(workDir), downloadFile of the
\* original into it, and extractVideoMetadata (ffprobe), whose failure is logged
TranscodeVideo_Fetch(w) ==
    /\ wk[w].pc = "fetch"
    /\ JobFrame
    /\ UNCHANGED <<dbVars, storeVars>>
    /\ LET a == wk[w].job.assetId IN
       \E mkdirOk \in BOOLEAN, probeOk \in BOOLEAN,
          downloadOk \in (IF HasOriginal(a) THEN CtxCall(JobCtxDone(w)) ELSE {FALSE}) :
         IF ~mkdirOk
         THEN /\ wk' = [wk EXCEPT ![w].pc = "return", ![w].err = "mkdir"]
              /\ UNCHANGED workDir
         ELSE IF ~downloadOk
         THEN /\ wk' = [wk EXCEPT ![w].pc = "return", ![w].err = "download", ![w].deferred = TRUE]
              /\ workDir' = WriteFiles(workDir, a, {})
         ELSE /\ wk' = [wk EXCEPT ![w].pc = IF probeOk THEN "savemeta" ELSE "transcode",
                                  ![w].deferred = TRUE]
              /\ workDir' = WriteFiles(workDir, a, {InputFile})

\* the values extractVideoMetadata returns
VideoMetadata == [width |-> 1920, height |-> 1080, codec |-> "h264"]

\* a mutant of TranscodeVideo_SaveMeta: a failed INSERT ends the job
TranscodeVideo_SaveMeta_Abort(w) ==
    /\ wk[w].pc = "savemeta"
    /\ JobFrame
    /\ UNCHANGED <<assets, storeVars, workDir>>
    /\ LET a == wk[w].job.assetId IN
       \E dbOk \in CtxCall(JobCtxDone(w)) :
         IF dbOk /\ a \in DOMAIN assets
         THEN /\ asset_meta' = (a :> VideoMetadata) @@ asset_meta
              /\ wk' = [wk EXCEPT ![w].pc = "transcode"]
         ELSE /\ UNCHANGED asset_meta
              /\ wk' = [wk EXCEPT ![w].pc = "return", ![w].err = "meta"]

\* INSERT INTO asset_meta ... ON CONFLICT (asset_id) DO UPDATE; a failure is logged
TranscodeVideo_SaveMeta(w) ==
    /\ wk[w].pc = "savemeta"
    /\ JobFrame
    /\ UNCHANGED <<assets, storeVars, workDir>>
    /\ wk' = [wk EXCEPT ![w].pc = "transcode"]
    /\ LET a == wk[w].job.assetId IN
       \E dbOk \in CtxCall(JobCtxDone(w)) :
         asset_meta' = IF dbOk /\ a \in DOMAIN assets
                       THEN (a :> VideoMetadata) @@ asset_meta
                       ELSE asset_meta

\* os.MkdirAll(hlsDir) and transcodeToHLS: ffmpeg writes the HLS ladder; the
\* command does not take the job's context
TranscodeVideo_Transcode(w) ==
    /\ wk[w].pc = "transcode"
    /\ JobFrame
    /\ UNCHANGED <<dbVars, storeVars>>
    /\ LET a == wk[w].job.assetId IN
       \E mkdirOk \in BOOLEAN, ffmpegOk \in BOOLEAN :
         IF ~mkdirOk
         THEN /\ wk' = [wk EXCEPT ![w].pc = "return", ![w].err = "mkhls"]
              /\ UNCHANGED workDir
         ELSE IF ffmpegOk /\ HasFile(a, InputFile)
         THEN /\ workDir' = WriteFiles(workDir, a, HLSNames)
              /\ wk' = [wk EXCEPT ![w].pc = "poster"]
         ELSE /\ wk' = [wk EXCEPT ![w].pc = "markfailed", ![w].err = "transcode"]
              /\ workDir' = WriteFiles(workDir, a, {})

\* p.db.Exec(ctx, "UPDATE assets SET state = 'failed' WHERE id = $1"): the
\* result and the error are dropped
MarkFailed(tbl, a, dbOk) == IF dbOk THEN SetState(tbl, a, "failed") ELSE tbl

TranscodeVideo_MarkFailed(w) ==
    /\ wk[w].pc = "markfailed"
    /\ JobFrame
    /\ UNCHANGED <<asset_meta, storeVars, workDir>>
    /\ wk' = [wk EXCEPT ![w].pc = "return"]
    /\ \E dbOk \in CtxCall(JobCtxDone(w)) :
         assets' = MarkFailed(assets, wk[w].job.assetId, dbOk)

\* a mutant of TranscodeVideo_Poster: a poster failure marks the asset failed
TranscodeVideo_Poster_Abort(w) ==
    /\ wk[w].pc = "poster"
    /\ JobFrame
    /\ UNCHANGED <<dbVars, vod, originals>>
    /\ LET a == wk[w].job.assetId IN
       \E posterOk \in (IF HasFile(a, InputFile) THEN BOOLEAN ELSE {FALSE}),
          uploadOk \in CtxCall(JobCtxDone(w)) :
         /\ workDir' = IF posterOk THEN WriteFiles(workDir, a, {PosterFile}) ELSE workDir
         /\ thumbs' = IF posterOk /\ uploadOk THEN thumbs \cup {a} ELSE thumbs
         /\ wk' = IF posterOk /\ uploadOk
                  THEN [wk EXCEPT ![w].pc = "uploadhls"]
                  ELSE [wk EXCEPT ![w].pc = "markfailed", ![w].err = "poster"]

\* generatePoster (ffmpeg extracts one frame) and uploadFile of the poster to
\* {assetId}/poster.jpg; either failure is logged
TranscodeVideo_Poster(w) ==
    /\ wk[w].pc = "poster"
    /\ JobFrame
    /\ UNCHANGED <<dbVars, vod, originals>>
    /\ wk' = [wk EXCEPT ![w].pc = "uploadhls"]
    /\ LET a == wk[w].job.assetId IN
       \E posterOk \in (IF HasFile(a, InputFile) THEN BOOLEAN ELSE {FALSE}),
          uploadOk \in CtxCall(JobCtxDone(w)) :
         /\ workDir' = IF posterOk THEN WriteFiles(workDir, a, {PosterFile}) ELSE workDir
         /\ thumbs' = IF posterOk /\ uploadOk THEN thumbs \cup {a} ELSE thumbs

\* a mutant of WalkNext: a failed upload is skipped and the walk goes on
WalkNext_IgnoreError(ok, n) == IF n + 1 = NumHLSFiles THEN "finalize" ELSE "uploadhls"

\* uploadDirectory's walk after file n+1: the first error ends it, the last
\* file ends it with no error
WalkNext(ok, n) ==
    IF ~ok THEN "markfailed"
    ELSE IF n + 1 = NumHLSFiles THEN "finalize" ELSE "uploadhls"

\* uploadDirectory: filepath.Walk uploads the next file of the HLS directory
\* to {assetId}/hls/
TranscodeVideo_UploadHLS(w) ==
    /\ wk[w].pc = "uploadhls"
    /\ JobFrame
    /\ UNCHANGED <<dbVars, thumbs, originals, workDir>>
    /\ LET a == wk[w].job.assetId
           f == wk[w].n + 1
       IN \E ok \in (IF HasFile(a, <<"hls", f>>) THEN CtxCall(JobCtxDone(w)) ELSE {FALSE}) :
            /\ vod' = IF ok THEN [vod EXCEPT ![a] = @ \cup {f}] ELSE vod
            /\ wk' = [wk EXCEPT ![w].pc = WalkNext(ok, wk[w].n),
                                ![w].n = IF ok THEN f ELSE @,
                                ![w].err = IF WalkNext(ok, wk[w].n) = "markfailed"
                                           THEN "upload" ELSE @]

\* a mutant of TranscodeVideo_Finalize: the update inserts the row when it is gone
TranscodeVideo_Finalize_Upsert(w) ==
    /\ wk[w].pc = "finalize"
    /\ JobFrame
    /\ UNCHANGED <<asset_meta, storeVars, workDir>>
    /\ \E dbOk \in CtxCall(JobCtxDone(w)) :
         IF dbOk
         THEN /\ assets' = LET a == wk[w].job.assetId IN
                           IF a \in DOMAIN assets THEN SetState(assets, a, "ready")
                           ELSE assets @@ (a :> [kind |-> "video", state |-> "ready",
                                                 object_key |-> <<>>])
              /\ wk' = [wk EXCEPT ![w].pc = "return"]
         ELSE /\ wk' = [wk EXCEPT ![w].pc = "return", ![w].err = "final"]
              /\ UNCHANGED assets

\* UPDATE assets SET state = 'ready' WHERE id = $1
TranscodeVideo_Finalize(w) ==
    /\ wk[w].pc = "finalize"
    /\ JobFrame
    /\ UNCHANGED <<asset_meta, storeVars, workDir>>
    /\ \E dbOk \in CtxCall(JobCtxDone(w)) :
         IF dbOk
         THEN /\ assets' = SetState(assets, wk[w].job.assetId, "ready")
              /\ wk' = [wk EXCEPT ![w].pc = "return"]
         ELSE /\ wk' = [wk EXCEPT ![w].pc = "return", ![w].err = "final"]
              /\ UNCHANGED assets

\* a mutant of TranscodeVideo_Return: a job that returned an error is pushed
\* back onto the queue
TranscodeVideo_Return_Requeue(w) ==
    /\ wk[w].pc = "return"
    /\ UNCHANGED <<apiVars, nextJobID, poolVars, clientVars, attempts>> /\ resp' = NoResp
    /\ queue' = IF wk[w].err # "none" THEN Append(queue, wk[w].job) ELSE queue
    /\ UNCHANGED <<dbVars, storeVars>>
    /\ workDir' = IF wk[w].deferred THEN Without(workDir, wk[w].job.assetId) ELSE workDir
    /\ wk' = [wk EXCEPT ![w] = [pc |-> "select", job |-> NoJob, timedOut |-> FALSE,
                                err |-> "none", deferred |-> FALSE, n |-> 0, kind |-> ""]]

\* the job returns: the deferred os.RemoveAll(workDir) runs, processJob hands
\* the error to the worker loop, which logs it and polls again
TranscodeVideo_Return(w) ==
    /\ wk[w].pc = "return"
    /\ JobFrame
    /\ UNCHANGED <<dbVars, storeVars>>
    /\ workDir' = IF wk[w].deferred THEN Without(workDir, wk[w].job.assetId) ELSE workDir
    /\ wk' = [wk EXCEPT ![w] = [pc |-> "select", job |-> NoJob, timedOut |-> FALSE,
                                err |-> "none", deferred |-> FALSE, n |-> 0, kind |-> ""]]

\* ------------------------------------------------- UploadTask, UploadController
\* a mutant of canCancel: a task in processing can be cancelled too
canCancel_Processing(task) == task.status \in {"queued", "uploading", "processing"}

\* UploadTask.canRetry, canCancel, isActive, isFinished
canRetry(task) == task.status = "failed"
canCancel(task) == task.status \in {"queued", "uploading"}
isActive(task) == task.status \in {"uploading", "processing"}
isFinished(task) == task.status \in {"completed", "failed", "cancelled"}

\* the argument given for field f is null
IsNull(f, v) ==
    \/ f = "assetId" /\ v = 0
    \/ f = "error" /\ v = "null"
    \/ f = "completedAt" /\ v = FALSE

\* UploadTask.copyWith: each field is "argument ?? this.field", so a null
\* argument keeps the field
copyWith(task, args) ==
    [f \in DOMAIN task |->
        IF f \in DOMAIN args /\ ~IsNull(f, args[f]) THEN args[f] ELSE task[f]]

\* map[k] = v
Put(map, k, v) == [x \in DOMAIN map \cup {k} |-> IF x = k THEN v ELSE map[x]]

\* Queue.removeWhere((t) => t.id == taskId)
RECURSIVE removeWhere(_, _)
removeWhere(q, taskId) ==
    IF q = <<>> THEN <<>>
    ELSE IF Head(q).id = taskId THEN removeWhere(Tail(q), taskId)
    ELSE <<Head(q)>> \o removeWhere(Tail(q), taskId)

\* the controller's fields as one value: c.tasks, c.q, c.active, c.run
Controller == [tasks |-> tasks, q |-> upQueue, active |-> activeUploads, run |-> run]

\* _updateTask: _tasks[task.id] = task
updateTask(c, task) == [c EXCEPT !.tasks = Put(c.tasks, task.id, task)]

\* _processQueue: while a slot is free and the queue is not empty, the first
\* task is removed and, if its status is queued, added to _activeUploads and
\* _upload(task) is started, which runs up to its first await: the task is
\* stored with status uploading and the file is being read (v is the value of
\* c, evaluated once)
RECURSIVE processQueue(_)
processQueue(c) ==
    CHOOSE out \in
      { IF Cardinality(v.active) < maxConcurrentUploads /\ v.q # <<>>
        THEN LET task == Head(v.q)
                 rest == [v EXCEPT !.q = Tail(v.q)]
             IN IF task.status = "queued"
                THEN processQueue(
                       [updateTask(rest, copyWith(task, [status |-> "uploading"]))
                          EXCEPT !.active = @ \cup {task.id},
                                 !.run = [@ EXCEPT ![task.id] =
                                            [pc |-> "read", task |-> task, assetId |-> 0,
                                             trace |-> <<>>]]])
                ELSE processQueue(rest)
        ELSE v : v \in {c} } : TRUE

\* the controller's fields become those of c (c is evaluated once)
Becomes(c) ==
    \E v \in {c} :
        /\ tasks' = v.tasks
        /\ upQueue' = v.q
        /\ activeUploads' = v.active
        /\ run' = v.run

\* a step of the widgets leaves the services alone
WidgetFrame == UNCHANGED serverVars

\* UploadController.enqueue: a queued task with a fresh id is stored and added
\* to the queue, then _processQueue
enqueue ==
    /\ nextTask <= MaxTasks
    /\ nextTask' = nextTask + 1
    /\ LET task == NewTask(nextTask)
       IN Becomes(processQueue([updateTask(Controller, task) EXCEPT !.q = Append(@, task)]))
    /\ ui' = Call("enqueue", nextTask)
    /\ UNCHANGED <<ufc, selectionVars>>
    /\ WidgetFrame

\* UploadController.cancel
cancel(taskId) ==
    /\ IF taskId \notin DOMAIN tasks \/ ~canCancel(tasks[taskId])
       THEN UNCHANGED <<tasks, upQueue, activeUploads, run>>
       ELSE LET c == updateTask(Controller,
                        copyWith(tasks[taskId], [status |-> "cancelled", completedAt |-> TRUE]))
            IN Becomes(processQueue([c EXCEPT !.q = removeWhere(@, taskId),
                                              !.active = @ \ {taskId}]))
    /\ ui' = Call("cancel", taskId)
    /\ UNCHANGED <<nextTask, ufc, selectionVars>>
    /\ WidgetFrame

\* UploadController.retry
retry(taskId) ==
    /\ IF taskId \notin DOMAIN tasks \/ ~canRetry(tasks[taskId])
       THEN UNCHANGED <<tasks, upQueue, activeUploads, run>>
       ELSE LET newTask == copyWith(tasks[taskId],
                              [status |-> "queued", progress |-> 0, error |-> "null",
                               completedAt |-> FALSE])
            IN Becomes(processQueue([updateTask(Controller, newTask)
                                        EXCEPT !.q = Append(@, newTask)]))
    /\ ui' = Call("retry", taskId)
    /\ UNCHANGED <<nextTask, ufc, selectionVars>>
    /\ WidgetFrame

\* the controller after cancel(taskId)
Cancelled(c, taskId) ==
    IF taskId \notin DOMAIN c.tasks \/ ~canCancel(c.tasks[taskId])
    THEN c
    ELSE processQueue([updateTask(c, copyWith(c.tasks[taskId],
                                     [status |-> "cancelled", completedAt |-> TRUE]))
                         EXCEPT !.q = removeWhere(@, taskId), !.active = @ \ {taskId}])

\* UploadController.remove: an active task is cancelled first, then the task
\* leaves the map and the queue
remove(taskId) ==
    /\ IF taskId \notin DOMAIN tasks
       THEN UNCHANGED <<tasks, upQueue, activeUploads, run>>
       ELSE LET c == IF isActive(tasks[taskId]) THEN Cancelled(Controller, taskId)
                     ELSE Controller
            IN Becomes([c EXCEPT !.tasks = Without(@, taskId),
                                 !.q = removeWhere(@, taskId)])
    /\ ui' = Call("remove", taskId)
    /\ UNCHANGED <<nextTask, ufc, selectionVars>>
    /\ WidgetFrame

\* UploadController.clearHistory: the finished tasks leave the map
clearHistory ==
    /\ tasks' = [t \in {x \in DOMAIN tasks : ~isFinished(tasks[x])} |-> tasks[t]]
    /\ ui' = Call("clearHistory", 0)
    /\ UNCHANGED <<upQueue, activeUploads, run, nextTask, ufc, selectionVars>>
    /\ WidgetFrame

\* outcomes of an awaited call: it returns or throws; uploadBytes, whose send
\* has a timeout, also throws TimeoutException
Outcomes == {"ok", "error"}
BytesOutcomes == Outcomes \cup {"timeout"}
\* the progress an onProgress callback reports, in percent
ProgressValues == {50}

\* _upload's catch blocks and finally: the task is stored failed with the
\* error, the id leaves _activeUploads, and _processQueue
Failed(c, t, event, outcome) ==
    LET r == c.run[t]
        failed == copyWith(r.task, [assetId |-> r.assetId, status |-> "failed",
                                    error |-> outcome, completedAt |-> TRUE])
        done == [updateTask(c, failed)
                   EXCEPT !.active = @ \ {t},
                          !.run = [@ EXCEPT ![t] = NoRun]]
    IN processQueue(done)

\* a step of the _upload call of task t
UploadFrame ==
    /\ ui' = NoCall
    /\ UNCHANGED <<nextTask, ufc, selectionVars>>
    /\ WidgetFrame

\* _upload: file.readAsBytes() returns and client.initUpload is called, or it throws
upload_Read(t) ==
    /\ run[t].pc = "read"
    /\ \E outcome \in {"ok", "error"} :
         IF outcome = "ok"
         THEN /\ run' = [run EXCEPT ![t].pc = "init", ![t].trace = @ \o <<"initUpload">>]
              /\ UNCHANGED <<tasks, upQueue, activeUploads>>
         ELSE Becomes(Failed(Controller, t, "readAsBytes", outcome))
    /\ UploadFrame

\* _upload: initUpload returns, the task is stored with the asset id and
\* client.uploadBytes is called; or initUpload throws
upload_Init(t) ==
    /\ run[t].pc = "init"
    /\ \E outcome \in Outcomes, aid \in 1..LiveAssets :
         IF outcome = "ok"
         THEN Becomes([updateTask(Controller, copyWith(run[t].task, [assetId |-> aid]))
                         EXCEPT !.run = [@ EXCEPT ![t].pc = "bytes", ![t].assetId = aid,
                                                  ![t].trace = @ \o <<"ok", "uploadBytes">>]])
         ELSE Becomes(Failed(Controller, t, "initUpload", outcome))
    /\ UploadFrame

\* uploadBytes' onProgress callback: the task is stored with the progress
upload_Progress(t) ==
    /\ run[t].pc = "bytes"
    /\ \E progress \in ProgressValues :
         Becomes(updateTask(Controller,
                    copyWith(run[t].task, [assetId |-> run[t].assetId, progress |-> progress])))
    /\ UploadFrame

\* a mutant of upload_Bytes: completeUpload is called whether or not the byte upload failed
upload_Bytes_IgnoreError(t) ==
    /\ run[t].pc = "bytes"
    /\ \E outcome \in BytesOutcomes :
         Becomes([updateTask(Controller,
                     copyWith(run[t].task, [assetId |-> run[t].assetId, status |-> "processing"]))
                    EXCEPT !.run = [@ EXCEPT ![t].pc = "complete",
                                             ![t].trace = @ \o <<outcome, "completeUpload">>]])
    /\ UploadFrame

\* _upload: uploadBytes returns, the task is stored with progress 1.0 and then
\* with status processing, and client.completeUpload is called; or uploadBytes throws
upload_Bytes(t) ==
    /\ run[t].pc = "bytes"
    /\ \E outcome \in BytesOutcomes :
         IF outcome = "ok"
         THEN Becomes([updateTask(Controller,
                          copyWith(run[t].task, [assetId |-> run[t].assetId,
                                                 status |-> "processing"]))
                         EXCEPT !.run = [@ EXCEPT ![t].pc = "complete",
                                                  ![t].trace = @ \o <<"ok", "completeUpload">>]])
         ELSE Becomes(Failed(Controller, t, "uploadBytes", outcome))
    /\ UploadFrame

\* a mutant of upload_Complete: after a successful completeUpload the finally
\* block frees the slot and does not call _processQueue
upload_Complete_NoProcessQueue(t) ==
    /\ run[t].pc = "complete"
    /\ \E outcome \in Outcomes :
         IF outcome = "ok"
         THEN LET r == run[t]
                  completed == copyWith(r.task, [assetId |-> r.assetId, status |-> "completed",
                                                 completedAt |-> TRUE])
              IN Becomes([updateTask(Controller, completed)
                            EXCEPT !.active = @ \ {t},
                                   !.run = [@ EXCEPT ![t] = NoRun]])
         ELSE Becomes(Failed(Controller, t, "completeUpload", outcome))
    /\ UploadFrame

\* _upload: completeUpload returns and the task is stored completed, or it
\* throws; then finally: the id leaves _activeUploads, and _processQueue
upload_Complete(t) ==
    /\ run[t].pc = "complete"
    /\ \E outcome \in Outcomes :
         IF outcome = "ok"
         THEN LET r == run[t]
                  completed == copyWith(r.task, [assetId |-> r.assetId, status |-> "completed",
                                                 completedAt |-> TRUE])
              IN Becomes(processQueue(
                    [updateTask(Controller, completed)
                       EXCEPT !.active = @ \ {t},
                              !.run = [@ EXCEPT ![t] = NoRun]]))
         ELSE Becomes(Failed(Controller, t, "completeUpload", outcome))
    /\ UploadFrame

\* ------------------------------------------ MediapodClient.uploadFileComplete
UfcFrame ==
    /\ ui' = NoCall
    /\ UNCHANGED <<controllerVars, selectionVars>>
    /\ WidgetFrame

\* uploadFileComplete is called: after file.length(), initUpload is called
uploadFileComplete_Start ==
    /\ ufc.pc = "idle"
    /\ ufc' = [pc |-> "init", trace |-> <<"initUpload">>]
    /\ UfcFrame

\* the awaited call returns and the next one is made (initUpload, uploadFile,
\* completeUpload, getAsset, then the asset is returned), or it throws and the
\* exception leaves uploadFileComplete
uploadFileComplete_Await ==
    /\ ufc.pc # "idle"
    /\ \E outcome \in {"ok", "error"} :
         ufc' = IF outcome = "ok"
                THEN CASE ufc.pc = "init" ->
                            [pc |-> "upload", trace |-> ufc.trace \o <<"ok", "uploadFile">>]
                       [] ufc.pc = "upload" ->
                            [pc |-> "complete", trace |-> ufc.trace \o <<"ok", "completeUpload">>]
                       [] ufc.pc = "complete" ->
                            [pc |-> "get", trace |-> ufc.trace \o <<"ok", "getAsset">>]
                       [] ufc.pc = "get" -> IdleCall
                ELSE IdleCall
    /\ UfcFrame

\* the steps of the _upload call of task t
UploadStep(t) ==
    \/ upload_Read(t)
    \/ upload_Init(t)
    \/ upload_Progress(t)
    \/ upload_Bytes(t)
    \/ upload_Complete(t)

\* the controller with the user enqueueing, cancelling, retrying and removing
\* tasks and clearing the history while uploads run
ControllerNext ==
    \/ enqueue
    \/ \E taskId \in TaskIds : cancel(taskId)
    \/ \E taskId \in TaskIds : retry(taskId)
    \/ \E taskId \in TaskIds : remove(taskId)
    \/ clearHistory
    \/ \E t \in TaskIds : upload_Read(t)
    \/ \E t \in TaskIds : upload_Init(t)
    \/ \E t \in TaskIds : upload_Progress(t)
    \/ \E t \in TaskIds : upload_Bytes(t)
    \/ \E t \in TaskIds : upload_Complete(t)

ControllerSpec == Init /\ [][ControllerNext]_vars

\* the awaited call of the _upload run of task t returns or throws
upload_Await(t) ==
    \/ upload_Read(t)
    \/ upload_Init(t)
    \/ upload_Bytes(t)
    \/ upload_Complete(t)

\* the controller when every awaited call of an upload run returns or throws
ControllerLiveSpec ==
    /\ Init
    /\ [][ControllerNext]_vars
    /\ \A t \in TaskIds : WF_vars(upload_Await(t))

\* uploads through uploadFileComplete and through the controller, with the
\* user cancelling and retrying tasks
UploadFlowNext ==
    \/ enqueue
    \/ \E taskId \in TaskIds : cancel(taskId)
    \/ \E taskId \in TaskIds : retry(taskId)
    \/ \E t \in TaskIds : upload_Read(t)
    \/ \E t \in TaskIds : upload_Init(t)
    \/ \E t \in TaskIds : upload_Progress(t)
    \/ \E t \in TaskIds : upload_Bytes(t)
    \/ \E t \in TaskIds : upload_Complete(t)
    \/ uploadFileComplete_Start
    \/ uploadFileComplete_Await

UploadFlowSpec == Init /\ [][UploadFlowNext]_vars

\* ------------------------------------------------------------ SelectionState
\* SelectionState.isSelected
isSelected(assetId) == assetId \in selectedIds

\* a mutant of isAtLimit: the limit counts as reached one selection late
isAtLimit_OffByOne == maxCount > 0 /\ Cardinality(selectedIds) > maxCount

\* SelectionState.isAtLimit
isAtLimit == maxCount > 0 /\ Cardinality(selectedIds) >= maxCount

\* selectAll's loop over the remaining assets, newIds collected so far
RECURSIVE selectAllFrom(_, _)
selectAllFrom(assetList, newIds) ==
    IF assetList = <<>> \/ (maxCount > 0 /\ Cardinality(newIds) >= maxCount)
    THEN newIds
    ELSE selectAllFrom(Tail(assetList), newIds \cup {Head(assetList)})

\* an operation on the SelectionState; the widget keeps the state it returns
SelectionFrame(op, assetId, assetList) ==
    /\ ui' = [op |-> op, id |-> assetId, list |-> assetList]
    /\ UNCHANGED <<mode, maxCount, controllerVars, ufc>>
    /\ WidgetFrame

\* SelectionState.toggle
toggle(assetId) ==
    /\ selectedIds' =
         IF mode = "none" THEN selectedIds
         ELSE IF mode = "single"
              THEN (IF isSelected(assetId) THEN {} ELSE {assetId})
         ELSE IF assetId \in selectedIds THEN selectedIds \ {assetId}
         ELSE IF ~isAtLimit THEN selectedIds \cup {assetId}
         ELSE selectedIds
    /\ SelectionFrame("toggle", assetId, <<>>)

\* SelectionState.select
select(assetId) ==
    /\ selectedIds' =
         IF mode = "none" THEN selectedIds
         ELSE IF isSelected(assetId) THEN selectedIds
         ELSE IF mode = "single" THEN {assetId}
         ELSE IF isAtLimit THEN selectedIds
         ELSE selectedIds \cup {assetId}
    /\ SelectionFrame("select", assetId, <<>>)

\* SelectionState.deselect
deselect(assetId) ==
    /\ selectedIds' = IF ~isSelected(assetId) THEN selectedIds ELSE selectedIds \ {assetId}
    /\ SelectionFrame("deselect", assetId, <<>>)

\* SelectionState.selectAll
selectAll(assetList) ==
    /\ selectedIds' = IF mode # "multiple" THEN selectedIds ELSE selectAllFrom(assetList, {})
    /\ SelectionFrame("selectAll", 0, assetList)

\* SelectionState.clear
clear ==
    /\ selectedIds' = IF selectedIds = {} THEN selectedIds ELSE {}
    /\ SelectionFrame("clear", 0, <<>>)

\* a SelectionState constructed with any selection, mode and limit
SelectionInit ==
    /\ InitRest
    /\ selectedIds \in SUBSET SelIds
    /\ mode \in SelectionModes
    /\ maxCount \in 0..MaxLimit

\* the gallery applying the operations to its SelectionState
SelectionNext ==
    \/ \E assetId \in SelIds : toggle(assetId)
    \/ \E assetId \in SelIds : select(assetId)
    \/ \E assetId \in SelIds : deselect(assetId)
    \/ \E assetList \in AssetLists : selectAll(assetList)
    \/ clear

SelectionSpec == SelectionInit /\ [][SelectionNext]_vars

\* ---------------------------------------------- Processor.ExtractMetadata
\* SELECT bucket, object_key, filename, kind FROM assets WHERE id = $1
ExtractMetadata_Lookup(w) ==
    /\ wk[w].pc = "extract"
    /\ JobFrame
    /\ UNCHANGED <<dbVars, storeVars, workDir>>
    /\ LET a == wk[w].job.assetId IN
       \E dbOk \in CtxCall(JobCtxDone(w)) :
         wk' = IF dbOk /\ a \in DOMAIN assets
               THEN [wk EXCEPT ![w].pc = "xfetch", ![w].kind = assets[a].kind]
               ELSE [wk EXCEPT ![w].pc = "return", ![w].err = "lookup"]

\* os.MkdirAll(workDir) with defer os.RemoveAll(workDir), and downloadFile of
\* the original into it; an asset that is not a video is done
ExtractMetadata_Fetch(w) ==
    /\ wk[w].pc = "xfetch"
    /\ JobFrame
    /\ UNCHANGED <<dbVars, storeVars>>
    /\ LET a == wk[w].job.assetId IN
       \E mkdirOk \in BOOLEAN,
          downloadOk \in (IF HasOriginal(a) THEN CtxCall(JobCtxDone(w)) ELSE {FALSE}) :
         IF ~mkdirOk
         THEN /\ wk' = [wk EXCEPT ![w].pc = "return", ![w].err = "mkdir"]
              /\ UNCHANGED workDir
         ELSE IF ~downloadOk
         THEN /\ wk' = [wk EXCEPT ![w].pc = "return", ![w].err = "download", ![w].deferred = TRUE]
              /\ workDir' = WriteFiles(workDir, a, {})
         ELSE /\ wk' = [wk EXCEPT ![w].pc = IF wk[w].kind = "video" THEN "xmeta" ELSE "return",
                                  ![w].deferred = TRUE]
              /\ workDir' = WriteFiles(workDir, a, {InputFile})

\* a mutant of ExtractMetadata_Save: a failed ffprobe marks the asset failed
ExtractMetadata_Save_MarksFailed(w) ==
    /\ wk[w].pc = "xmeta"
    /\ JobFrame
    /\ UNCHANGED <<storeVars, workDir>>
    /\ LET a == wk[w].job.assetId IN
       \E probeOk \in (IF HasFile(a, InputFile) THEN BOOLEAN ELSE {FALSE}),
          dbOk \in CtxCall(JobCtxDone(w)) :
         IF ~probeOk
         THEN /\ wk' = [wk EXCEPT ![w].pc = "return", ![w].err = "ffprobe"]
              /\ assets' = MarkFailed(assets, a, dbOk)
              /\ UNCHANGED asset_meta
         ELSE IF dbOk /\ a \in DOMAIN assets
         THEN /\ wk' = [wk EXCEPT ![w].pc = "return"]
              /\ asset_meta' = (a :> VideoMetadata) @@ asset_meta
              /\ UNCHANGED assets
         ELSE /\ wk' = [wk EXCEPT ![w].pc = "return", ![w].err = "upsert"]
              /\ UNCHANGED <<assets, asset_meta>>

\* extractVideoMetadata (ffprobe on the input file) and the upsert of the
\* asset_meta row, whose error is returned
ExtractMetadata_Save(w) ==
    /\ wk[w].pc = "xmeta"
    /\ JobFrame
    /\ UNCHANGED <<assets, storeVars, workDir>>
    /\ LET a == wk[w].job.assetId IN
       \E probeOk \in (IF HasFile(a, InputFile) THEN BOOLEAN ELSE {FALSE}),
          dbOk \in CtxCall(JobCtxDone(w)) :
         IF ~probeOk
         THEN /\ wk' = [wk EXCEPT ![w].pc = "return", ![w].err = "ffprobe"]
              /\ UNCHANGED asset_meta
         ELSE IF dbOk /\ a \in DOMAIN assets
         THEN /\ wk' = [wk EXCEPT ![w].pc = "return"]
              /\ asset_meta' = (a :> VideoMetadata) @@ asset_meta
         ELSE /\ wk' = [wk EXCEPT ![w].pc = "return", ![w].err = "upsert"]
              /\ UNCHANGED asset_meta

\* -------------------------------------------------------------------- Next
APINext(R) ==
    \/ \E r \in R, idStr \in IdInputs : CompleteUpload_Update(r, idStr)
    \/ \E r \in R : CompleteUpload_Kind(r)
    \/ \E r \in R : CompleteUpload_Branch(r)
    \/ \E r \in R, idStr \in IdInputs : DeleteAsset_Select(r, idStr)
    \/ \E r \in R : DeleteAsset_Delete(r)

\* the worker goroutines: the loop and the transcode pipeline
WorkerNext ==
    \/ Start
    \/ \E w \in Workers : worker_Select(w)
    \/ \E w \in Workers : worker_BLPop(w)
    \/ \E w \in Workers : TranscodeVideo_Lookup(w)
    \/ \E w \in Workers : TranscodeVideo_Fetch(w)
    \/ \E w \in Workers : TranscodeVideo_SaveMeta(w)
    \/ \E w \in Workers : TranscodeVideo_Transcode(w)
    \/ \E w \in Workers : TranscodeVideo_MarkFailed(w)
    \/ \E w \in Workers : TranscodeVideo_Poster(w)
    \/ \E w \in Workers : TranscodeVideo_UploadHLS(w)
    \/ \E w \in Workers : TranscodeVideo_Finalize(w)
    \/ \E w \in Workers : TranscodeVideo_Return(w)

\* a client's requests, one at a time
ClientNext ==
    \/ \E key \in issuedKeys : PutObject(key)
    \/ \E kind \in {"video", "image"} :
          /\ nextUUID <= LiveAssets
          /\ InitUpload("video/mp4", kind, ClipName, 1048576, 1)
    \/ APINext({1})

\* the whole system while the pool runs: a client uploads videos and images
\* and the workers run the jobs
Next == ClientNext \/ WorkerNext

Spec == Init /\ [][Next]_vars

\* the whole system with the pool's shutdown and the jobs' timeout
CancelNext ==
    \/ Next
    \/ Stop
    \/ Stop_Wait
    \/ \E w \in Workers : JobTimeout(w)

CancelSpec == Init /\ [][CancelNext]_vars

\* the upload API serving concurrent requests, for assets of every kind
APISpecNext ==
    \/ \E kind \in Kinds :
          /\ nextUUID <= LiveAssets
          /\ InitUpload("video/mp4", kind, ClipName, 1048576, 1)
    \/ APINext(Reqs)

APISpec == Init /\ [][APISpecNext]_vars

\* InitUpload with every request input and the calendar day varied, and
\* DeleteAsset, one request at a time
UploadNext ==
    \/ \E mime \in Mimes, kind \in KindInputs, filename \in Filenames,
          size \in Sizes, now \in Days : InitUpload(mime, kind, filename, size, now)
    \/ \E idStr \in IdInputs : DeleteAsset_Select(1, idStr)
    \/ DeleteAsset_Delete(1)

UploadSpec == Init /\ [][UploadNext]_vars

\* InitUpload alone, over every mime, kind and filename of a request body, with
\* the size and the day of the request held fixed
FixedSize == CHOOSE size \in Sizes : TRUE
FixedDay == CHOOSE now \in Days : TRUE
InitUploadNext ==
    \E mime \in Mimes, kind \in KindInputs, filename \in Filenames :
        InitUpload(mime, kind, filename, FixedSize, FixedDay)

InitUploadSpec == Init /\ [][InitUploadNext]_vars

\* ---------------------------------------------------------------- the pool
\* job types a producer may name; "resize" is not a type processJob knows
JobTypes == {"transcode", "thumbnail", "resize"}

\* EnqueueJob: a Job with a fresh id is marshalled and pushed onto the tail of
\* the list; the RPush error is returned
EnqueueJob(assetID, jobType) ==
    /\ UNCHANGED <<clientVars, attempts>>
    /\ nextJobID <= MaxJobs
    /\ nextJobID' = nextJobID + 1
    /\ \E pushOk \in BOOLEAN :
         queue' = IF pushOk
                  THEN Append(queue, [id |-> nextJobID, assetId |-> assetID, type |-> jobType])
                  ELSE queue
    /\ UNCHANGED <<dbVars, storeVars, apiVars, workerVars>>
    /\ resp' = NoResp

\* the pool with producers pushing jobs through EnqueueJob while the database
\* holds no asset: a transcode job ends at its lookup
PoolNext ==
    \/ \E jobType \in JobTypes : EnqueueJob(1, jobType)
    \/ Start
    \/ Stop
    \/ Stop_Wait
    \/ \E w \in Workers : worker_Select(w)
    \/ \E w \in Workers : worker_BLPop(w)
    \/ \E w \in Workers : JobTimeout(w)
    \/ \E w \in Workers : TranscodeVideo_Lookup(w)
    \/ \E w \in Workers : TranscodeVideo_Return(w)

PoolSpec == Init /\ [][PoolNext]_vars

\* the job types processJob knows, and one it does not
AllJobTypes == {"transcode", "thumbnail", "extract_meta", "resize"}

\* a video is uploaded and completed while producers push thumbnail and
\* extract_meta jobs for it, next to the transcode job CompleteUpload pushes
JobsNext ==
    \/ /\ nextUUID <= LiveAssets
       /\ InitUpload("video/mp4", "video", ClipName, 1048576, 1)
    \/ \E key \in issuedKeys : PutObject(key)
    \/ \E a \in DOMAIN assets : CompleteUpload_Update(1, <<a>>)
    \/ CompleteUpload_Kind(1)
    \/ CompleteUpload_Branch(1)
    \/ \E a \in DOMAIN assets, jobType \in {"thumbnail", "extract_meta"} : EnqueueJob(a, jobType)
    \/ WorkerNext
    \/ \E w \in Workers : ExtractMetadata_Lookup(w)
    \/ \E w \in Workers : ExtractMetadata_Fetch(w)
    \/ \E w \in Workers : ExtractMetadata_Save(w)

JobsSpec == Init /\ [][JobsNext]_vars

\* a payload that is not the JSON of a Job
Garbage == [raw |-> "{"]

\* what another producer may push: text that is no Job, a job naming no uuid,
\* jobs of a type processJob does not know, a transcode job
Payloads(id) ==
    {Garbage,
     [id |-> id, assetId |-> 0, type |-> "resize"],
     [id |-> id, assetId |-> 1, type |-> "resize"],
     [id |-> id, assetId |-> 1, type |-> "transcode"]}

\* a producer pushes a payload onto the tail of the list; MaxJobs bounds the pushes
PushPayload(data) ==
    /\ UNCHANGED <<clientVars, attempts>>
    /\ nextJobID <= MaxJobs
    /\ nextJobID' = nextJobID + 1
    /\ queue' = Append(queue, data)
    /\ UNCHANGED <<dbVars, storeVars, apiVars, workerVars>>
    /\ resp' = NoResp

\* the worker loop with every payload on the list, Redis failing at times, the
\* jobs' timeout and the pool's shutdown, while the database holds no asset
LoopNext ==
    \/ \E data \in Payloads(nextJobID) : PushPayload(data)
    \/ Start
    \/ Stop
    \/ Stop_Wait
    \/ \E w \in Workers : worker_Select(w)
    \/ \E w \in Workers : worker_BLPop(w)
    \/ \E w \in Workers : worker_PopError(w)
    \/ \E w \in Workers : worker_Sleep(w)
    \/ \E w \in Workers : JobTimeout(w)
    \/ \E w \in Workers : TranscodeVideo_Lookup(w)
    \/ \E w \in Workers : TranscodeVideo_Return(w)

LoopSpec == Init /\ [][LoopNext]_vars

\* the steps worker goroutine w takes by itself in the loop
LoopStep(w) ==
    \/ worker_Select(w)
    \/ worker_BLPop(w)
    \/ worker_Sleep(w)
    \/ TranscodeVideo_Lookup(w)
    \/ TranscodeVideo_Return(w)

\* the loop with the Go scheduler running every goroutine that can take a
\* step: the workers, and the caller of Stop waiting in p.wg.Wait()
LoopLiveSpec ==
    /\ Init
    /\ [][LoopNext]_vars
    /\ WF_vars(Stop_Wait)
    /\ \A w \in Workers : WF_vars(LoopStep(w))

\* ------------------------------------------------- the system with readers
\* the steps of worker goroutine w
WorkerStep(w) ==
    \/ worker_Select(w)
    \/ worker_BLPop(w)
    \/ TranscodeVideo_Lookup(w)
    \/ TranscodeVideo_Fetch(w)
    \/ TranscodeVideo_SaveMeta(w)
    \/ TranscodeVideo_Transcode(w)
    \/ TranscodeVideo_MarkFailed(w)
    \/ TranscodeVideo_Poster(w)
    \/ TranscodeVideo_UploadHLS(w)
    \/ TranscodeVideo_Finalize(w)
    \/ TranscodeVideo_Return(w)

\* clients reading assets
ReadNext ==
    \/ \E idStr \in IdInputs : GetAsset(idStr)
    \/ ListAssets

LiveNext == Next \/ ReadNext

\* the running system: main starts the pool, and the Go scheduler runs every
\* worker goroutine that can take a step
LiveSpec ==
    /\ Init
    /\ [][LiveNext]_vars
    /\ WF_vars(Start)
    /\ \A w \in Workers : WF_vars(WorkerStep(w))

\* ================================================================== claims
\* jobs in the queue that name asset a
JobsFor(q, a) == Cardinality({i \in DOMAIN q : q[i].assetId = a})

\* the last step answered a CompleteUpload with 200 and the given state
Completed(state) == resp.op = "complete" /\ resp.status = 200 /\ resp.state = state

\* C1 (as stated): a CompleteUpload of a video asset that answers 200 returns
\* processing, leaves the asset in processing and has pushed exactly one
\* transcode job naming the asset.
C1_ExactlyOneJob ==
    Completed("processing") =>
        /\ resp.id \in DOMAIN assets => assets[resp.id].state = "processing"
        /\ pushed[resp.id] = 1
        /\ JobsFor(queue, resp.id) = 1

\* C1 (amended): the response step of a CompleteUpload of a video asset answers
\* 200 with processing, leaves the asset in processing, and either appends one
\* job of type transcode naming the asset to the queue or, when the push fails,
\* leaves the queue as it is; the asset never has more than one job.
C1_ProcessingAndAtMostOneJob ==
    [][\A r \in Reqs :
         reqs[r].pc = "branch" /\ reqs[r].kind = "video" /\ reqs'[r].pc = "idle" =>
            LET a == reqs[r].id IN
            /\ resp' = Response("complete", 200, "processing", a, <<>>)
            /\ assets' = assets
            /\ a \in DOMAIN assets => assets[a].state = "processing"
            /\ \/ queue' = queue /\ pushed' = pushed
               \/ /\ Len(queue') = Len(queue) + 1
                  /\ SubSeq(queue', 1, Len(queue)) = queue
                  /\ queue'[Len(queue')].type = "transcode"
                  /\ queue'[Len(queue')].assetId = a
                  /\ pushed' = [pushed EXCEPT ![a] = 1]
            /\ JobsFor(queue', a) <= 1]_vars

\* C1 witness: a video's CompleteUpload has answered processing and its one
\* transcode job is in the queue
C1_Witness ==
    /\ Completed("processing")
    /\ resp.id \in DOMAIN assets
    /\ assets[resp.id].kind = "video"
    /\ assets[resp.id].state = "processing"
    /\ pushed[resp.id] = 1
    /\ \E i \in DOMAIN queue : queue[i].assetId = resp.id /\ queue[i].type = "transcode"

C3_AtMostOnePasses ==
    \A a \in AssetIds :
        /\ passed[a] <= 1
        /\ pushed[a] <= 1
        /\ JobsFor(queue, a) <= 1
        /\ Cardinality({r \in Reqs : reqs[r].op = "complete" /\ reqs[r].id = a}) <= 1

\* C3 witness: while one CompleteUpload of the asset is past the guard and not
\* yet answered, another one for the same asset has been answered 404
C3_Witness ==
    \E r \in Reqs :
        /\ reqs[r].op = "complete"
        /\ resp.op = "complete" /\ resp.status = 404
        /\ resp.id = reqs[r].id

\* C4 (as stated): a CompleteUpload of an image, audio or document asset that
\* answers 200 with ready leaves the asset in ready and pushes no job.
C4_ReadyIsPersisted ==
    Completed("ready") =>
        /\ resp.id \in DOMAIN assets => assets[resp.id].state = "ready"
        /\ pushed[resp.id] = 0
        /\ JobsFor(queue, resp.id) = 0

\* C5: every row a valid InitUpload inserts has state uploading, whatever the
\* kind and the declared size.
C5_InitialStateUploading ==
    [][\A a \in DOMAIN assets' \ DOMAIN assets :
          /\ assets'[a].state = "uploading"
          /\ assets'[a].kind \in Kinds]_vars

\* C5 witness: an InitUpload of an audio asset has been answered 200 and its row
\* is there
C5_Witness ==
    /\ resp.op = "init" /\ resp.status = 200
    /\ resp.id \in DOMAIN assets
    /\ assets[resp.id].kind = "audio"
    /\ assets[resp.id].state = "uploading"

\* C6: the object key an InitUpload returns differs from every key returned
\* before, and no two stored assets share an object key (the bucket of every
\* row is the originals bucket).
C6_ObjectKeysUnique ==
    [][/\ resp'.op = "init" /\ resp'.status = 200 =>
            /\ resp'.key \notin issuedKeys
            /\ resp'.key = assets'[resp'.id].object_key
       /\ \A a, b \in DOMAIN assets' :
            a # b => assets'[a].object_key # assets'[b].object_key]_vars

\* C6 witness: two InitUpload calls with the same file name on the same day
\* have both been answered with a key
C6_Witness ==
    /\ resp.op = "init" /\ resp.status = 200
    /\ \E k \in issuedKeys :
         /\ k # resp.key
         /\ k[1] = resp.key[1]
         /\ k[3] = resp.key[3]

\* C7: a video asset in ready has every file of its HLS output in the VOD
\* bucket, and a step that makes a video asset ready is the final UPDATE of a
\* transcode job for it that transcoded and walked the whole HLS directory
\* with no error.
C7_ReadyVideoHasFullHLS ==
    [][\A a \in DOMAIN assets' :
          assets'[a].kind = "video" /\ assets'[a].state = "ready" =>
             /\ vod'[a] = HLSFiles
             /\ (a \notin DOMAIN assets \/ assets[a].state # "ready") =>
                   \E w \in Workers :
                      /\ wk[w].pc = "finalize" /\ wk'[w].pc = "return"
                      /\ wk[w].job.assetId = a
                      /\ wk[w].job.type = "transcode"
                      /\ wk[w].n = NumHLSFiles
                      /\ wk[w].err = "none"
                      /\ HLSNames \subseteq workDir[a]]_vars

\* C7 witness: a video asset is ready, its HLS output is in the VOD bucket and
\* the job that made it ready is returning
C7_Witness ==
    \E w \in Workers :
        /\ wk[w].pc = "return" /\ wk[w].err = "none"
        /\ wk[w].job.assetId \in DOMAIN assets
        /\ assets[wk[w].job.assetId].kind = "video"
        /\ assets[wk[w].job.assetId].state = "ready"
        /\ vod[wk[w].job.assetId] = HLSFiles

\* C8 (as stated): when a transcode job returns the error of its transcoding
\* stage, the asset is in state failed.
C8_TranscodeFailureMarksFailed ==
    \A w \in Workers :
        wk[w].pc = "return" /\ wk[w].err = "transcode" /\ wk[w].job.assetId \in DOMAIN assets =>
            assets[wk[w].job.assetId].state = "failed"

\* C9 (as stated): when a transcode job returns the error of its HLS upload,
\* the asset is in state failed.
C9_UploadFailureMarksFailed ==
    \A w \in Workers :
        wk[w].pc = "return" /\ wk[w].err = "upload" /\ wk[w].job.assetId \in DOMAIN assets =>
            assets[wk[w].job.assetId].state = "failed"

\* C10 (as stated): when a transcode job returns an error of the download, the
\* transcoding or the HLS upload, the asset is in state failed, not processing.
C10_CriticalFailureMarksFailed ==
    \A w \in Workers :
        /\ wk[w].pc = "return"
        /\ wk[w].err \in {"download", "transcode", "upload"}
        /\ wk[w].job.assetId \in DOMAIN assets
        => assets[wk[w].job.assetId].state = "failed"

\* the errors of the Fetching stage: asset lookup, work directory, download
FetchErrors == {"lookup", "mkdir", "download"}

\* asset a is in processing and nothing is left that will write its state: its
\* CompleteUpload is over, no job for it is in the queue and no worker holds one
Stuck(a) ==
    /\ a \in DOMAIN assets
    /\ assets[a].state = "processing"
    /\ JobsFor(queue, a) = 0
    /\ \A w \in Workers : wk[w].job.assetId # a
    /\ \A r \in Reqs : ~(reqs[r].op = "complete" /\ reqs[r].id = a)

\* C11: a transcode job that fails in the Fetching stage (lookup, work
\* directory, download) writes no asset state and leaves the asset in
\* processing; once the job has returned nothing is left to write the state,
\* and from then on the asset, unless deleted, stays in processing.
C11_FetchFailureLeavesProcessing ==
    [][/\ \A w \in Workers :
            /\ wk[w].pc \in {"lookup", "fetch"} /\ wk'[w].pc = "return" =>
                  /\ wk'[w].err \in FetchErrors
                  /\ assets' = assets
                  /\ asset_meta' = asset_meta
                  /\ wk[w].job.assetId \in DOMAIN assets =>
                        assets[wk[w].job.assetId].state = "processing"
            /\ \A a \in AssetIds :
                  /\ wk[w].pc = "return" /\ wk[w].err \in FetchErrors
                  /\ wk[w].job.assetId = a
                  /\ wk'[w].pc = "select"
                  /\ a \in DOMAIN assets'
                  => Stuck(a)'
       /\ \A a \in AssetIds : Stuck(a) /\ a \in DOMAIN assets' => Stuck(a)']_vars

\* C11 witness: the job of an asset has failed to download the original and
\* returned, and the asset sits in processing with nothing left to move it
C11_Witness ==
    \E a \in AssetIds :
        /\ Stuck(a)
        /\ assets[a].kind = "video"
        /\ pushed[a] = 1
        /\ a \notin DOMAIN workDir
        /\ vod[a] = {}
        /\ \A w \in Workers : wk[w].pc = "select"

\* C12: a failed metadata extraction, or a failed save of the metadata, does
\* not end the transcode job and leaves the AssetMeta row as it was: the job
\* goes on to transcoding with no error, only a successful save writes
\* asset_meta, and the final UPDATE makes the asset ready whether or not the
\* asset has an AssetMeta row.
C12_MetadataFailureNotFatal ==
    [][\A w \in Workers : \A a \in AssetIds :
          wk[w].job.assetId = a =>
             /\ wk[w].pc = "fetch" /\ wk'[w].pc \notin {"fetch", "return"} =>
                   /\ wk'[w].pc \in {"savemeta", "transcode"}
                   /\ wk'[w].err = "none"
                   /\ asset_meta' = asset_meta
             /\ wk[w].pc = "savemeta" /\ wk'[w].pc # "savemeta" =>
                   /\ wk'[w].pc = "transcode"
                   /\ wk'[w].err = "none"
                   /\ assets' = assets
                   /\ \/ asset_meta' = asset_meta
                      \/ a \in DOMAIN assets /\ asset_meta' = (a :> VideoMetadata) @@ asset_meta
             /\ wk[w].pc \in JobPcs \ {"savemeta"} /\ wk'[w] # wk[w] =>
                   asset_meta' = asset_meta
             /\ wk[w].pc = "finalize" /\ wk'[w].pc = "return" /\ wk'[w].err = "none"
                /\ a \in DOMAIN assets =>
                   assets'[a].state = "ready"]_vars

\* C12 witness: a job whose metadata was not saved has made its asset ready
\* and returns no error, and the asset has no AssetMeta row
C12_Witness ==
    \E w \in Workers :
        /\ wk[w].pc = "return" /\ wk[w].err = "none"
        /\ wk[w].job.assetId \in DOMAIN assets
        /\ assets[wk[w].job.assetId].state = "ready"
        /\ wk[w].job.assetId \notin DOMAIN asset_meta
        /\ vod[wk[w].job.assetId] = HLSFiles

\* C13: the poster stage never ends a transcode job and never writes the
\* asset's state, whether the poster was generated and uploaded or not: the job
\* goes on to the HLS upload with no error; a job that returns no error has
\* made its asset ready.
C13_PosterFailureNotFatal ==
    [][\A w \in Workers : \A a \in AssetIds :
          wk[w].job.assetId = a =>
             /\ wk[w].pc = "poster" /\ wk'[w].pc # "poster" =>
                   /\ wk'[w].pc = "uploadhls"
                   /\ wk'[w].err = "none"
                   /\ assets' = assets
                   /\ thumbs' \in {thumbs, thumbs \cup {a}}
             /\ wk[w].pc = "finalize" /\ wk'[w].pc = "return" /\ a \in DOMAIN assets =>
                   /\ wk'[w].err = "none" => assets'[a].state = "ready"
                   /\ wk'[w].err # "none" => wk'[w].err = "final" /\ assets' = assets
             /\ wk[w].pc = "return" /\ wk[w].err = "none" /\ a \in DOMAIN assets =>
                   assets[a].state = "ready"]_vars

\* C13 witness: a job whose poster was not generated or not uploaded has made
\* its asset ready and returns no error
C13_Witness ==
    \E w \in Workers :
        /\ wk[w].pc = "return" /\ wk[w].err = "none"
        /\ wk[w].job.assetId \in DOMAIN assets
        /\ assets[wk[w].job.assetId].state = "ready"
        /\ wk[w].job.assetId \notin thumbs

\* C14: when the push of the transcode job fails in a CompleteUpload of a
\* video asset, the call still answers 200 with processing, the asset is not
\* rolled back and stays in processing, and no job for the asset is in the queue.
C14_PushFailureNoRollback ==
    [][\A r \in Reqs : \A a \in AssetIds :
          /\ reqs[r].pc = "branch" /\ reqs[r].kind = "video" /\ reqs[r].id = a
          /\ reqs'[r].pc = "idle"
          /\ pushed'[a] = pushed[a]
          => /\ resp' = Response("complete", 200, "processing", a, <<>>)
             /\ assets' = assets
             /\ a \in DOMAIN assets => assets'[a].state = "processing"
             /\ queue' = queue
             /\ JobsFor(queue', a) = 0
             /\ passed'[a] = 1]_vars

\* C14 witness: a CompleteUpload of a video asset has answered processing, the
\* push failed, the asset is in processing and the queue holds no job for it
C14_Witness ==
    /\ Completed("processing")
    /\ pushed[resp.id] = 0
    /\ resp.id \in DOMAIN assets
    /\ assets[resp.id].kind = "video"
    /\ assets[resp.id].state = "processing"
    /\ JobsFor(queue, resp.id) = 0

\* C15 (as stated): once Pool.Stop has been invoked no worker takes a job from
\* the queue and hands it to the Processor, and Stop has returned only when
\* every worker loop has exited.
C15_NoDispatchAfterStop ==
    [][/\ poolCtxDone => \A w \in Workers : wk[w].pc = "blpop" => wk'[w].pc \notin JobPcs
       /\ stopPc' = "returned" => \A w \in Workers : wk'[w].pc = "stopped"]_vars

\* the places job j is in: entries of the queue and workers holding it
JobCopies(j) ==
    Cardinality({i \in DOMAIN queue : queue[i].id = j})
      + Cardinality({w \in Workers : wk[w].job.id = j})

\* C16: with the workers popping the shared queue concurrently, a job a worker
\* receives is the head of the queue and leaves the queue in the same step, no
\* other worker receives anything in that step, a pushed job has a fresh id,
\* and so a job is never in the queue and with a worker, or with two workers.
C16_DeliveredToOneWorker ==
    [][/\ \A j \in 1..MaxJobs : JobCopies(j)' <= 1
       /\ \A w \in Workers :
            wk'[w].job # wk[w].job /\ wk'[w].job # NoJob =>
               /\ wk[w].pc = "blpop"
               /\ queue # <<>>
               /\ wk'[w].job = Head(queue)
               /\ queue' = Tail(queue)
               /\ \A v \in Workers \ {w} : wk'[v] = wk[v]
       /\ queue' # queue =>
            \/ /\ queue # <<>>
               /\ queue' = Tail(queue)
               /\ \E w \in Workers : wk[w].pc = "blpop" /\ wk'[w].job = Head(queue)
            \/ /\ Len(queue') = Len(queue) + 1
               /\ SubSeq(queue', 1, Len(queue)) = queue
               /\ queue'[Len(queue')].id = nextJobID
               /\ nextJobID' = nextJobID + 1]_vars

\* C16 witness: two workers hold two different jobs popped from the shared
\* queue while a third job waits in the queue
C16_Witness ==
    /\ \A w \in Workers : wk[w].pc \in JobPcs /\ wk[w].job # NoJob
    /\ \A v, w \in Workers : v # w => wk[v].job.id # wk[w].job.id
    /\ queue # <<>>

\* a worker holds a job of asset a that has met an error
JobFailed(a) == \E w \in Workers : wk[w].job.assetId = a /\ wk[w].err # "none"

\* C17: with the pool running, once a CompleteUpload of a video asset has
\* answered processing with its transcode job in the queue, the job is
\* eventually popped by a worker, and the asset eventually is ready unless a
\* step of the job fails or the asset is deleted; a GetAsset of a ready video
\* returns urls.hls = {VOD_URL}/{assetId}/hls/master.m3u8 and
\* urls.poster = {THUMBS_URL}/{assetId}/poster.jpg.
C17_EndToEnd ==
    /\ \A a \in AssetIds :
          (Completed("processing") /\ resp.id = a /\ JobsFor(queue, a) = 1)
             ~> (\E w \in Workers : wk[w].job.assetId = a /\ wk[w].job.type = "transcode")
    /\ \A a \in AssetIds :
          (Completed("processing") /\ resp.id = a /\ JobsFor(queue, a) = 1)
             ~> \/ a \notin DOMAIN assets
                \/ assets[a].state = "ready"
                \/ JobFailed(a)
    /\ [](resp.op = "get" /\ resp.status = 200 =>
             /\ resp.id \in DOMAIN assets
             /\ resp.asset = [id |-> resp.id, kind |-> assets[resp.id].kind,
                              state |-> assets[resp.id].state, urls |-> resp.asset.urls]
             /\ resp.asset.kind = "video" /\ resp.asset.state = "ready" =>
                   resp.asset.urls =
                      {<<"hls", <<"PUBLIC_VOD_URL", resp.id, "hls/master.m3u8">>>>,
                       <<"poster", <<"PUBLIC_THUMBS_URL", resp.id, "poster.jpg">>>>})

\* C17 witness: a video asset went through the whole pipeline with the poster
\* and the metadata in place, and a GetAsset of it has returned the two URLs
C17_Witness ==
    /\ resp.op = "get" /\ resp.status = 200
    /\ resp.asset.kind = "video" /\ resp.asset.state = "ready"
    /\ <<"hls", <<"PUBLIC_VOD_URL", resp.id, "hls/master.m3u8">>>> \in resp.asset.urls
    /\ <<"poster", <<"PUBLIC_THUMBS_URL", resp.id, "poster.jpg">>>> \in resp.asset.urls
    /\ vod[resp.id] = HLSFiles
    /\ resp.id \in thumbs
    /\ resp.id \in DOMAIN asset_meta

\* C18: the DELETE step of a DeleteAsset of asset a answers 204 or, when the
\* database fails, 500 with the tables unchanged; with 204 the row of a and its
\* asset_meta row are gone and the other rows are as they were; the object may
\* or may not have been removed from the originals bucket, with either answer;
\* no asset_meta row is ever left without its asset.
C18_DeleteCascades ==
    [][/\ \A r \in Reqs : \A a \in AssetIds :
            reqs[r].pc = "delete" /\ reqs[r].id = a /\ reqs'[r].pc = "idle" =>
               /\ resp'.op = "delete" /\ resp'.id = a
               /\ resp'.status \in {204, 500}
               /\ resp'.status = 500 => assets' = assets /\ asset_meta' = asset_meta
               /\ resp'.status = 204 =>
                     /\ assets' = Without(assets, a)
                     /\ asset_meta' = Without(asset_meta, a)
               /\ originals' \in {originals, {k \in originals : k[2] # a}}
               /\ vod' = vod /\ thumbs' = thumbs /\ queue' = queue
       /\ DOMAIN asset_meta' \subseteq DOMAIN assets']_vars

\* C18 witness: a DeleteAsset has answered 204 and the asset's row is gone
\* while its object, whose deletion failed, is still in the originals bucket
C18_Witness ==
    /\ resp.op = "delete" /\ resp.status = 204
    /\ resp.id \notin DOMAIN assets
    /\ resp.id \notin DOMAIN asset_meta
    /\ HasOriginal(resp.id)
    /\ vod[resp.id] = HLSFiles

\* the names of the entries of a URL map
URLNames(urls) == {u[1] : u \in urls}

\* an AssetResponse whose URL map is empty unless its state is ready, with the
\* hls and poster entries only for a ready video and the thumbnail entry only
\* for a ready image
URLsOnlyWhenReady(x) ==
    /\ x.state # "ready" => x.urls = {}
    /\ URLNames(x.urls) \cap {"hls", "poster"} # {} => x.state = "ready" /\ x.kind = "video"
    /\ "thumbnail" \in URLNames(x.urls) => x.state = "ready" /\ x.kind = "image"
    /\ x.state = "ready" /\ x.kind = "video" => URLNames(x.urls) = {"hls", "poster"}
    /\ x.state = "ready" /\ x.kind = "image" => "thumbnail" \in URLNames(x.urls)

\* C19: every asset GetAsset or ListAssets returns carries the state of its
\* row and an empty URL map unless that state is ready; hls and poster URLs
\* appear only for ready videos and thumbnail URLs only for ready images.
C19_URLsOnlyWhenReady ==
    /\ resp.op = "get" /\ resp.status = 200 =>
          /\ resp.asset.id = resp.id
          /\ resp.asset.state = assets[resp.id].state
          /\ URLsOnlyWhenReady(resp.asset)
    /\ resp.op = "list" /\ resp.status = 200 =>
          \A x \in resp.assets :
             /\ x.id \in DOMAIN assets
             /\ x.state = assets[x.id].state
             /\ URLsOnlyWhenReady(x)

\* C19 witness: ListAssets has returned a video asset in state failed with an
\* empty URL map
C19_Witness ==
    /\ resp.op = "list" /\ resp.status = 200
    /\ \E x \in resp.assets : x.kind = "video" /\ x.state = "failed" /\ x.urls = {}

\* request fields that InitUpload's validation rejects
InvalidInit(mime, kind, filename) ==
    mime = "" \/ kind = "" \/ filename = <<>> \/ kind \notin {"image", "video", "audio", "document"}

\* C20: an InitUpload with an empty mime, kind or filename, or with a kind
\* outside image, video, audio, document, answers 400, inserts no asset row,
\* consumes no asset id and returns no object key or presigned URL; a valid
\* request is never answered 400.
C20_InvalidInitRejected ==
    [][resp'.op = "init" =>
          \A mime \in Mimes, kind \in KindInputs, filename \in Filenames :
             InitUpload(mime, kind, filename, FixedSize, FixedDay) =>
                IF InvalidInit(mime, kind, filename)
                THEN /\ resp' = Response("init", 400, "", 0, <<>>)
                     /\ assets' = assets
                     /\ issuedKeys' = issuedKeys
                     /\ nextUUID' = nextUUID
                ELSE resp'.status # 400]_vars

\* C20 witness: an InitUpload has been answered 400 while an earlier, valid one
\* left its row
C20_Witness ==
    /\ resp = Response("init", 400, "", 0, <<>>)
    /\ DOMAIN assets = {1}
    /\ nextUUID = 2

\* in the calls made so far by one attempt, completeUpload comes only after
\* initUpload and then the byte upload (named bytes) have both returned
CompleteCalledInOrder(trace, bytes) ==
    \A i \in DOMAIN trace :
        trace[i] = "completeUpload" =>
            SubSeq(trace, 1, i - 1) = <<"initUpload", "ok", bytes, "ok">>

\* C21: in uploadFileComplete and in an _upload run of the controller,
\* completeUpload is called only after initUpload and then the byte upload
\* returned successfully; when initUpload or the byte upload throws, the attempt
\* ends there without a completeUpload call, and the controller's task is
\* stored failed.
C21_InitUploadComplete ==
    /\ [](/\ CompleteCalledInOrder(ufc.trace, "uploadFile")
          /\ \A t \in TaskIds : CompleteCalledInOrder(run[t].trace, "uploadBytes"))
    /\ [][/\ \A t \in TaskIds :
                /\ \/ run[t].pc = "init" /\ run'[t].pc # "bytes"
                   \/ run[t].pc = "bytes" /\ run'[t].pc # "complete"
                /\ run'[t] # run[t]
                => /\ run'[t] = NoRun
                   /\ t \in DOMAIN tasks'
                   /\ tasks'[t].status = "failed"
          /\ (\/ ufc.pc = "init" /\ ufc'.pc # "upload"
              \/ ufc.pc = "upload" /\ ufc'.pc # "complete")
                => ufc' = ufc \/ ufc' = IdleCall]_vars

\* C21 witness: one task failed in its byte upload after initUpload returned,
\* and the next task's run and an uploadFileComplete call have both called
\* completeUpload
C21_Witness ==
    /\ 1 \in DOMAIN tasks /\ tasks[1].status = "failed" /\ tasks[1].assetId # 0
    /\ run[2].trace = <<"initUpload", "ok", "uploadBytes", "ok", "completeUpload">>
    /\ ufc.trace = <<"initUpload", "ok", "uploadFile", "ok", "completeUpload">>

\* C22: in multiple mode with maxCount > 0, an operation applied to a
\* selection of at most maxCount ids leaves at most maxCount ids selected, so
\* every sequence of operations from such a selection stays within the limit;
\* at the limit, toggle or select of an unselected id changes nothing, and
\* toggle or deselect of a selected id removes it.
C22_SelectionWithinMaxCount ==
    [][mode = "multiple" /\ maxCount > 0 /\ Cardinality(selectedIds) <= maxCount =>
          /\ Cardinality(selectedIds') <= maxCount
          /\ Cardinality(selectedIds) = maxCount =>
                /\ ui'.op \in {"toggle", "select"} /\ ui'.id \notin selectedIds =>
                      selectedIds' = selectedIds
                /\ ui'.op \in {"toggle", "deselect"} /\ ui'.id \in selectedIds =>
                      selectedIds' = selectedIds \ {ui'.id}]_vars

\* C22 witness: a select of an unselected id has just left a selection unchanged
\* that holds maxCount ids
C22_Witness ==
    /\ mode = "multiple" /\ maxCount > 0
    /\ ui.op = "select" /\ ui.id \notin selectedIds
    /\ Cardinality(selectedIds) = maxCount

\* C23: a cancel of a task that is unknown or neither queued nor uploading, and
\* a retry of a task that is unknown or not failed, leave the task map, the
\* queue, the active set and the runs unchanged; a cancel or retry that changes
\* the task it names was called on a task in a status it accepts.
C23_CancelRetryGuards ==
    [][/\ ui'.op = "cancel" /\ ~(ui'.id \in DOMAIN tasks /\ tasks[ui'.id].status \in {"queued", "uploading"})
            => UNCHANGED <<tasks, upQueue, activeUploads, run>>
       /\ ui'.op = "retry" /\ ~(ui'.id \in DOMAIN tasks /\ tasks[ui'.id].status = "failed")
            => UNCHANGED <<tasks, upQueue, activeUploads, run>>
       /\ ui'.op = "cancel" /\ ui'.id \in DOMAIN tasks /\ tasks[ui'.id].status \in {"queued", "uploading"}
            => tasks'[ui'.id].status = "cancelled"
       /\ ui'.op = "retry" /\ ui'.id \in DOMAIN tasks /\ tasks[ui'.id].status = "failed"
            => tasks'[ui'.id].status \in {"queued", "uploading"}]_vars

\* C23 witness: cancel has just been called on a completed task, while another
\* task is failed
C23_Witness ==
    /\ ui.op = "cancel" /\ ui.id \in DOMAIN tasks /\ tasks[ui.id].status = "completed"
    /\ \E t \in DOMAIN tasks : tasks[t].status = "failed"

\* C24: a worker leaves its loop only at the top of the loop or in the pop, and
\* only when the pool has been cancelled; an empty pop, a pop error and its
\* back-off, a payload that does not parse, and a job that returns, with or
\* without an error, each take the worker back to the top of the loop.
C24_WorkerExitsOnlyOnCancel ==
    [][\A w \in Workers :
          /\ wk'[w].pc = "stopped" /\ wk[w].pc # "stopped" =>
                poolCtxDone /\ wk[w].pc \in {"select", "blpop"}
          /\ wk[w].pc = "blpop" /\ wk'[w].pc \notin {"blpop", "stopped"} =>
                \/ wk'[w].pc \in {"select", "sleep"}
                \/ queue # <<>> /\ Unmarshals(Head(queue)) /\ wk'[w].job = Head(queue)
          /\ wk[w].pc \in {"sleep", "return"} /\ wk'[w].pc # wk[w].pc => wk'[w].pc = "select"]_vars

\* C24 witness: every payload pushed has been consumed, one of them a job that
\* was handed to processJob, and both workers are polling the empty queue of a
\* running pool
C24_Witness ==
    /\ nextJobID = MaxJobs + 1 /\ queue = <<>>
    /\ ~poolCtxDone
    /\ \A w \in Workers : wk[w].pc = "blpop"
    /\ attempts # <<>>

\* C25: once Stop has cancelled the pool, every worker eventually leaves its
\* loop, whether it was in the pop, backing off after a pop error or running a
\* job that returns, and Stop eventually returns.
C25_StopTerminates ==
    /\ poolCtxDone ~> (\A w \in Workers : wk[w].pc = "stopped")
    /\ (stopPc = "waiting") ~> (stopPc = "returned")

\* C25 witness: Stop has been called and waits while one worker backs off after
\* a pop error and the other runs a job
C25_Witness ==
    /\ stopPc = "waiting"
    /\ wk[1].pc = "sleep"
    /\ wk[2].pc = "lookup"

\* C26: once the job window of a dispatched job has expired, the worker does no
\* further stage of the job: its next step is the return of processJob or the
\* top of the loop.
C26_TimeoutAbandonsJob ==
    [][\A w \in Workers :
          wk[w].timedOut /\ wk'[w].pc # wk[w].pc => wk'[w].pc \in {"return", "select"}]_vars

\* C27: no job is handed to processJob more than once, and nothing but a
\* producer's push of a payload with a fresh id ever adds to the queue: a job
\* that failed, timed out, was cancelled or was discarded is not pushed back.
C27_AtMostOneAttempt ==
    /\ [](\A j \in DOMAIN attempts : attempts[j] <= 1)
    /\ [][queue' # queue =>
             \/ queue # <<>> /\ queue' = Tail(queue)
             \/ /\ Len(queue') = Len(queue) + 1
                /\ SubSeq(queue', 1, Len(queue)) = queue
                /\ nextJobID' = nextJobID + 1
                /\ wk' = wk]_vars

\* C27 witness: a job was handed to processJob, the pool has been stopped
\* since, and the job is neither in the queue nor with a worker
C27_Witness ==
    /\ attempts # <<>>
    /\ queue = <<>>
    /\ stopPc = "returned"
    /\ \A w \in Workers : wk[w].job = NoJob

\* payloads on the list q that are not the JSON of a job
Malformed(q) == Cardinality({i \in DOMAIN q : ~Unmarshals(q[i])})

\* C28: when a worker pops a payload that does not deserialize into a job, the
\* payload leaves the queue, the worker holds no job and is back at the top of
\* its loop, processJob is not called, and the database, the object store and
\* the scratch directories are unchanged; only a producer's push adds such a
\* payload to the queue.
C28_MalformedDiscarded ==
    [][/\ \A w \in Workers :
            /\ wk[w].pc = "blpop" /\ wk'[w].pc \notin {"blpop", "sleep", "stopped"}
            /\ queue # <<>> /\ ~Unmarshals(Head(queue))
            => /\ queue' = Tail(queue)
               /\ wk'[w].pc = "select" /\ wk'[w].job = NoJob
               /\ UNCHANGED <<dbVars, storeVars, workDir, attempts>>
       /\ Malformed(queue') > Malformed(queue) => nextJobID' = nextJobID + 1 /\ wk' = wk]_vars

\* C28 witness: the one payload pushed so far did not parse and a worker has
\* popped it: the queue is empty and no job was handed to processJob
C28_Witness ==
    /\ nextJobID = 2
    /\ queue = <<>>
    /\ attempts = <<>>
    /\ \A w \in Workers : wk[w].job = NoJob /\ wk[w].pc \in {"select", "blpop"}

\* the job types processJob's switch names
KnownJobTypes == {"transcode", "thumbnail", "extract_meta"}

\* C29 as stated: processJob returns no error for a job of an unknown type,
\* whatever its other fields.
C29_UnknownTypeNoError ==
    [][\A w \in Workers :
          wk[w].pc = "blpop" /\ wk'[w].job # NoJob /\ wk'[w].job.type \notin KnownJobTypes =>
             wk'[w].pc = "return" /\ wk'[w].err = "none"]_vars

\* C29, amended: a job of an unknown type reaches no stage of the Processor:
\* processJob returns at once, with no error when the job's assetId parses as a
\* uuid and with the parse error when it does not; the job is not put back on
\* the queue, and the database, the object store and the scratch directories
\* are unchanged by every step the worker takes with it.
C29_UnknownTypeDropped ==
    [][\A w \in Workers :
          /\ wk[w].pc = "blpop" /\ wk'[w].job # NoJob /\ wk'[w].job.type \notin KnownJobTypes =>
                /\ wk'[w].pc = "return"
                /\ wk'[w].err = IF uuidParses(wk'[w].job.assetId) THEN "none" ELSE "parse"
                /\ queue' = Tail(queue)
                /\ UNCHANGED <<dbVars, storeVars, workDir>>
          /\ wk[w].job # NoJob /\ wk[w].job.type \notin KnownJobTypes /\ wk'[w] # wk[w] =>
                /\ wk'[w].pc \in {"return", "select"}
                /\ wk'[w].pc = "return" => wk'[w].err = wk[w].err
                /\ UNCHANGED <<dbVars, storeVars, workDir, queue>>]_vars

\* C29 witness: processJob has returned the parse error for a job of type
\* resize whose assetId is not a uuid
C29_Witness ==
    \E w \in Workers :
        /\ wk[w].pc = "return"
        /\ wk[w].job.type = "resize" /\ wk[w].job.assetId = 0
        /\ wk[w].err = "parse"

\* the assets whose state is failed in table tbl
FailedIn(tbl) == {a \in DOMAIN tbl : tbl[a].state = "failed"}

\* C30: an asset's state becomes failed only in the step of a transcode job
\* that follows the failure of its transcoding stage or of its HLS upload; no
\* step of the API, of an extract_meta or thumbnail job, or of another stage of
\* a transcode job adds an asset to the failed ones.
C30_FailedOnlyByTranscodeOrUpload ==
    [][\A a \in FailedIn(assets') \ FailedIn(assets) :
          \E w \in Workers :
             /\ wk[w].pc = "markfailed" /\ wk'[w].pc = "return"
             /\ wk[w].job.type = "transcode" /\ wk[w].job.assetId = a
             /\ wk[w].err \in {"transcode", "upload"}]_vars

\* C30 witness: the asset is failed after its HLS upload failed, and an
\* extract_meta job for the same asset has failed as well
C30_Witness ==
    \E a \in FailedIn(assets), w1, w2 \in Workers :
        /\ wk[w1].pc = "return" /\ wk[w1].job.type = "transcode"
        /\ wk[w1].job.assetId = a /\ wk[w1].err = "upload"
        /\ wk[w2].pc = "return" /\ wk[w2].job.type = "extract_meta"
        /\ wk[w2].job.assetId = a /\ wk[w2].err = "ffprobe"

\* worker w runs a job that has created its work directory and not yet returned
UsesWorkDir(w) == wk[w].deferred /\ wk[w].pc \in JobPcs \ {"return"}

\* C31 (as stated): the work directory of a job is private to it: no step of
\* another worker, its deferred cleanup included, removes the directory or
\* changes the files in it while the job is using it.
C31_WorkDirPrivate ==
    [][\A w1, w2 \in Workers :
          (w1 # w2 /\ wk'[w1] # wk[w1] /\ UsesWorkDir(w2)) =>
             LET a == wk[w2].job.assetId IN
             a \in DOMAIN workDir => a \in DOMAIN workDir' /\ workDir'[a] = workDir[a]]_vars

\* C32 (as stated): in every step in which CompleteUpload answers 200 with
\* state ready, the asset's row is in state ready after the step: the state
\* the call reports is the persisted one.
C32_ReportedReadyIsPersisted ==
    [][\A r \in Reqs :
          (/\ reqs[r].pc = "branch" /\ reqs'[r].pc = "idle"
           /\ resp'.op = "complete" /\ resp'.status = 200 /\ resp'.state = "ready")
          => /\ reqs[r].kind \in Kinds \ {"video"}
             /\ reqs[r].id \in DOMAIN assets'
             /\ assets'[reqs[r].id].state = "ready"]_vars

\* the state changes of the asset lifecycle
Transitions == {<<"uploading", "processing">>, <<"processing", "ready">>,
                <<"processing", "failed">>}

\* the rows present before and after a step whose state the step changed
Changed == {a \in DOMAIN assets \cap DOMAIN assets' : assets'[a].state # assets[a].state}

\* request r performs CompleteUpload's guarded update of asset a in this step
GuardedUpdate(r, a) ==
    reqs[r].pc = "idle" /\ reqs'[r].pc = "kind" /\ reqs'[r].op = "complete" /\ reqs'[r].id = a

\* C33 (as stated): an asset's state changes only along uploading ->
\* processing, processing -> ready and processing -> failed, and it leaves
\* uploading only through a successful CompleteUpload: the call that made the
\* guarded update answers 200.
C33_LeavesUploadingBySuccessfulComplete ==
    [][/\ \A a \in Changed :
            /\ <<assets[a].state, assets'[a].state>> \in Transitions
            /\ assets[a].state = "uploading" => \E r \in Reqs : GuardedUpdate(r, a)
       /\ \A r \in Reqs :
            (reqs[r].op = "complete" /\ reqs[r].pc \in {"kind", "branch"} /\ reqs'[r].pc = "idle")
               => resp'.status = 200]_vars

\* C33, amended: while jobs are enqueued only by CompleteUpload, an asset's
\* state changes only along uploading -> processing, processing -> ready and
\* processing -> failed; it leaves uploading only in the guarded update of a
\* CompleteUpload call, whatever that call answers afterwards, and an asset in
\* ready or failed keeps its state.
C33_StateTransitions ==
    [][\A a \in Changed :
          /\ <<assets[a].state, assets'[a].state>> \in Transitions
          /\ assets[a].state = "uploading" => \E r \in Reqs : GuardedUpdate(r, a)]_vars

\* C33 witness: CompleteUpload has answered 500 for a video asset that its
\* guarded update moved to processing and for which no job was pushed
C33_Witness ==
    /\ resp.op = "complete" /\ resp.status = 500
    /\ resp.id \in DOMAIN assets
    /\ assets[resp.id].kind = "video" /\ assets[resp.id].state = "processing"
    /\ passed[resp.id] = 1 /\ pushed[resp.id] = 0 /\ nextJobID = 1

\* response rsp is InitUpload's 500 for a failed PresignedPutURL
PresignFailed(rsp) ==
    /\ rsp.op = "init" /\ rsp.status = 500
    /\ "error" \in DOMAIN rsp /\ rsp.error = "Failed to generate upload URL"

\* C34: an InitUpload that answers 500 because presigning failed has inserted
\* exactly one row, in state uploading, and has removed none; the response does
\* not carry the row's id and its object key was issued to nobody; no later
\* InitUpload returns the id of a row that exists already.
C34_PresignFailureLeavesRow ==
    [][/\ PresignFailed(resp') =>
             /\ DOMAIN assets' = DOMAIN assets \cup {nextUUID}
             /\ nextUUID \notin DOMAIN assets
             /\ \A a \in DOMAIN assets : assets'[a] = assets[a]
             /\ assets'[nextUUID].state = "uploading"
             /\ assets'[nextUUID].object_key \notin issuedKeys'
             /\ resp'.id # nextUUID
       /\ (resp'.op = "init" /\ resp'.status = 200) => resp'.id \notin DOMAIN assets]_vars

\* C34 witness: presigning has failed and the row of the request is in the
\* table, in state uploading, its key issued to nobody
C34_Witness ==
    /\ PresignFailed(resp)
    /\ \E a \in DOMAIN assets :
          /\ a = nextUUID - 1
          /\ assets[a].state = "uploading"
          /\ assets[a].object_key \notin issuedKeys

\* the stages of a transcode job after the Fetching stage
PastFetching == {"savemeta", "transcode", "markfailed", "poster", "uploadhls", "finalize"}

\* C35: DeleteAsset leaves the workers, the queue and the vod bucket alone; a
\* transcode job past its Fetching stage whose asset row is gone goes on
\* without touching the table: its HLS uploads add objects under the asset's
\* prefix, its final update changes no row and ends the job with no error
\* unless the database call itself fails; a row appears only in InitUpload,
\* under a fresh id, so a deleted asset never reappears.
C35_DeleteDoesNotFenceJob ==
    [][/\ \A r \in Reqs :
            reqs[r].pc = "delete" /\ reqs'[r].pc = "idle" =>
               wk' = wk /\ queue' = queue /\ vod' = vod
       /\ \A a \in DOMAIN assets' \ DOMAIN assets :
            a = nextUUID /\ nextUUID' = nextUUID + 1
       /\ \A w \in Workers :
            LET a == wk[w].job.assetId IN
            (/\ wk[w].pc \in PastFetching /\ a \notin DOMAIN assets
             /\ wk'[w] # wk[w] /\ wk'[w].timedOut = wk[w].timedOut) =>
               /\ assets' = assets
               /\ wk[w].pc = "uploadhls" =>
                     /\ \A b \in DOMAIN vod : b # a => vod'[b] = vod[b]
                     /\ vod[a] \subseteq vod'[a]
                     /\ wk'[w].pc # "markfailed" => vod'[a] = vod[a] \cup {wk[w].n + 1}
               /\ wk[w].pc = "finalize" =>
                     /\ wk'[w].pc = "return"
                     /\ wk'[w].err \in {"none", "final"}]_vars

\* C35 witness: a transcode job has returned with no error and with all its
\* HLS objects in the vod bucket for an asset whose row and original were
\* deleted after the job had downloaded the original
C35_Witness ==
    \E w \in Workers :
        LET a == wk[w].job.assetId IN
        /\ wk[w].pc = "return" /\ wk[w].job.type = "transcode" /\ wk[w].err = "none"
        /\ a \notin DOMAIN assets /\ ~HasOriginal(a)
        /\ vod[a] = HLSFiles

\* the upload runs that have started and not yet finished
RunsInProgress == {t \in TaskIds : run[t].pc # "none"}

\* C36 (as stated): at most maxConcurrentUploads upload runs are in progress.
C36_UploadsInProgressBounded ==
    Cardinality(RunsInProgress) <= maxConcurrentUploads

\* C37 (as stated): a task whose status is cancelled keeps that status for as
\* long as it is in the task table, and its upload run does not go on to call
\* completeUpload.
C37_CancelledStaysCancelled ==
    [][\A t \in DOMAIN tasks :
          tasks[t].status = "cancelled" =>
             /\ t \in DOMAIN tasks' => tasks'[t].status = "cancelled"
             /\ run[t].pc = "bytes" => run'[t].pc # "complete"]_vars

\* C38: when every awaited client call returns or throws, every task in the
\* controller's table eventually has a finished status (completed, failed or
\* cancelled), unless remove takes it out of the table first.
C38_EveryTaskFinishes ==
    \A t \in TaskIds :
        (t \in DOMAIN tasks) ~> (t \notin DOMAIN tasks \/ isFinished(tasks[t]))

\* C38 witness: with one upload slot, both tasks were enqueued and both are
\* finished, the second completed
C38_Witness ==
    /\ DOMAIN tasks = {1, 2}
    /\ isFinished(tasks[1])
    /\ tasks[2].status = "completed"
    /\ upQueue = <<>> /\ activeUploads = {}

\* C39 (as stated): retry of a failed task leaves the task under the same id,
\* queued (or uploading, when _processQueue starts it at once) with progress
\* 0, and with its error and completedAt cleared.
C39_RetryClearsFailure ==
    [][(/\ ui'.op = "retry" /\ ui'.id \in DOMAIN tasks
        /\ tasks[ui'.id].status = "failed")
       => /\ ui'.id \in DOMAIN tasks'
          /\ tasks'[ui'.id].id = ui'.id
          /\ tasks'[ui'.id].status \in {"queued", "uploading"}
          /\ tasks'[ui'.id].progress = 0
          /\ tasks'[ui'.id].error = "null"
          /\ tasks'[ui'.id].completedAt = FALSE]_vars

====
